---- MODULE Spec2Model ----
(***************************************************************************)
(* formgen: the schema-driven form engine.                                 *)
(*                                                                         *)
(* The module models, component by component, the code that the form       *)
(* engine runs in the browser:                                             *)
(*   - the filter / query builder of the two service facades               *)
(*     (SupabaseService and GraphQLService getFormResponsesWithFilters),   *)
(*   - the response browser (ResponsesIndex) that feeds it,                *)
(*   - the form validator and the submit / update handlers,                *)
(*   - the loaders of ShowResponse / EditResponse,                         *)
(*   - the relation resolver.                                              *)
(* Each component has its own specification (SpecFilter, SpecIndex, ...)   *)
(* over the shared variables; a component's specification leaves the       *)
(* variables of the other components at their initial value.               *)
(***************************************************************************)
EXTENDS Integers, Sequences, FiniteSets, TLC

VARIABLES
    (* service facade: one getFormResponsesWithFilters call *)
    svcPc,          \* "idle" | "awaiting" | "returned" | "thrown"
    svcCall,        \* the arguments of the call in flight
    svcQuery,       \* the query built on the supabase client
    svcResult,      \* the PaginatedResponse handed to the caller
    (* ResponsesIndex: the response browser *)
    riService,      \* the service the page calls ("supabase" | "graphql")
    riFields,       \* formFields: the types of the form's fields, in order
    riFilters,      \* filters[fieldId].value, per field
    riSearchTerm,   \* searchTerm
    riCurrentPage,  \* currentPage
    riPageSize,     \* pageSize
    riActive,       \* activeFilters of the last fetchResponses
    riQuery,        \* the query the last fetchResponses issued
    (* SubmitForm / EditResponse: the form being filled in *)
    vfPage,         \* "SubmitForm" | "EditResponse" | "EditResponseGql"
    vfFields,       \* fields: [type, required] per field, in schema order
    vfData,         \* formData[field.id], per field
    vfRelated,      \* relatedResponses[field.id]: the ids offered, per field
    vfErrors,       \* errors[field.id], per field ("" when there is no key)
    vfPc,           \* "editing" | "validated" | "threw" | "rejected"
                    \* | "submitting" | "done"
    vfSent,         \* the data of the request handed to the service
    (* ShowResponse / EditResponse: loading route (formId, responseId) *)
    ldPage,         \* "ShowResponseGql" | "ShowResponse" | "EditResponse"
                    \* | "EditResponseGql"
    ldFormId,       \* the route's formId
    ldResponseId,   \* the route's responseId
    ldForms,        \* backend: the ids of the rows of table forms
    ldResponses,    \* backend: form_id of each row of table responses
    ldPc,           \* "start" | "formLoaded" | "loaded" | "formNotFound"
                    \* | "responseNotFound" | "navigatedAway"
    ldResponse,     \* form_id of the response whose data the page holds
    ldUpdated,      \* form_id of the response updateResponse was called for
    (* relation resolver of the pages *)
    rlPage,         \* "ShowResponse" | "ResponsesIndex" | "EditResponse"
                    \* | "EditResponseGql"
    rlFields,       \* the page's relation fields: relationConfig.displayField
    rlSchema,       \* the fields of the target form
    rlResponses,    \* the responses of the target form, as fetched
    rlOther,        \* a response of another form carries the unmatched id
    rlValue,        \* the value stored in the relation fields
    rlMap,          \* per relation field: the resolved [id, displayValue]
    rlPc,           \* "loading" | "resolved" | "shown"
    rlFetches,      \* getFormResponses calls made for the target form
    rlShown,        \* what getRelationDisplayValue returned last
    (* FormGenerator / EditForm: the form builder and its save path *)
    bdPage,         \* "FormGenerator" | "EditForm"
    bdTitle,        \* form.title
    bdFields,       \* form.fields: [id, type, options, relationConfig]
    bdClock,        \* Date.now()
    bdBackend,      \* backend: the ids of the forms a relation can target
    bdCache,        \* graphqlService.formsCache, as the ids of its forms
    bdPc,           \* "editing" | "rejected" | "saving"
    bdSent,         \* the title and schema createForm / updateForm stores
    (* the readers of a stored schema *)
    rdReader,       \* "SubmitForm" | "EditForm" | "ShowResponse"
    rdStored,       \* form.schema as the backend returned it
    rdPc,           \* "reading" | "done"
    rdResult,       \* the fields set, the page's state, an error toast shown
    (* a page load that resolves relations whose fetches may fail *)
    rfPage,         \* "ShowResponse" | "ResponsesIndex" | "EditResponse"
                    \* | "EditResponseGql"
    rfOutcomes,     \* per relation field: how its fetches will end
    rfPc,           \* "fetching" | "resolving" | "awaiting" | "finishing"
                    \* | "done"
    rfNext,         \* the relation field the loop is at
    rfLoading,      \* loading
    rfFlags,        \* the relation fields whose loading flag is set (0: the
                    \* single loadingRelations flag of ShowResponse)
    rfResolved,     \* the relation fields whose display values are held
    rfView,         \* [notFound, data]: a not-found state was entered; the
                    \* response's own field values are held
    (* the CRUD facade and its callers *)
    fcForms,        \* the ids of the forms the backend stores
    fcList,         \* the ids of the forms in the list the useForms hook holds
    fcResult,       \* the last call: what was called, how its requests
                    \* ended, what the caller got
    (* the singleton graphqlService and the calls in flight on it *)
    gsBackend,      \* the ids of the forms the backend stores
    gsCache,        \* formsCache, as the ids of the forms it lists
    gsCalls,        \* per caller: the call it awaits, [op, id, pc, snapshot,
                    \* failed, record]
    (* the list of ResponsesIndex: fetches in flight, pagination, deletion *)
    rpStored,       \* the ids of the responses the backend stores
    rpParams,       \* [page, pageSize, filter]: currentPage, pageSize and the
                    \* filters / search term of the page
    rpFetches,      \* the fetchResponses calls in flight, [params, latest]
    rpView,         \* [responses, totalCount, loading]
    rpLatest,       \* what the most recently issued fetchResponses returned
    rpDelete        \* [toDelete, dialogOpen, deleting, deletes]

svcVars == <<svcPc, svcCall, svcQuery, svcResult>>
riVars == <<riService, riFields, riFilters, riSearchTerm, riCurrentPage,
            riPageSize, riActive, riQuery>>
vfVars == <<vfPage, vfFields, vfData, vfRelated, vfErrors, vfPc, vfSent>>
ldVars == <<ldPage, ldFormId, ldResponseId, ldForms, ldResponses, ldPc,
            ldResponse, ldUpdated>>
rlVars == <<rlPage, rlFields, rlSchema, rlResponses, rlOther, rlValue, rlMap,
            rlPc, rlFetches, rlShown>>
bdVars == <<bdPage, bdTitle, bdFields, bdClock, bdBackend, bdCache, bdPc,
            bdSent>>
rdVars == <<rdReader, rdStored, rdPc, rdResult>>
rfVars == <<rfPage, rfOutcomes, rfPc, rfNext, rfLoading, rfFlags, rfResolved,
            rfView>>
fcVars == <<fcForms, fcList, fcResult>>
gsVars == <<gsBackend, gsCache, gsCalls>>
rpVars == <<rpStored, rpParams, rpFetches, rpView, rpLatest, rpDelete>>
vars == <<svcVars, riVars, vfVars, ldVars, rlVars, bdVars, rdVars, rfVars,
          fcVars, gsVars, rpVars>>

\* the variables a component's actions leave unchanged
svcOthers ==
    <<riVars, vfVars, ldVars, rlVars, bdVars, rdVars, rfVars, fcVars,
      gsVars, rpVars>>
riOthers ==
    <<svcVars, vfVars, ldVars, rlVars, bdVars, rdVars, rfVars, fcVars,
      gsVars, rpVars>>
vfOthers ==
    <<svcVars, riVars, ldVars, rlVars, bdVars, rdVars, rfVars, fcVars,
      gsVars, rpVars>>
ldOthers ==
    <<svcVars, riVars, vfVars, rlVars, bdVars, rdVars, rfVars, fcVars,
      gsVars, rpVars>>
rlOthers ==
    <<svcVars, riVars, vfVars, ldVars, bdVars, rdVars, rfVars, fcVars,
      gsVars, rpVars>>
bdOthers ==
    <<svcVars, riVars, vfVars, ldVars, rlVars, rdVars, rfVars, fcVars,
      gsVars, rpVars>>
rdOthers ==
    <<svcVars, riVars, vfVars, ldVars, rlVars, bdVars, rfVars, fcVars,
      gsVars, rpVars>>
rfOthers ==
    <<svcVars, riVars, vfVars, ldVars, rlVars, bdVars, rdVars, fcVars,
      gsVars, rpVars>>
fcOthers ==
    <<svcVars, riVars, vfVars, ldVars, rlVars, bdVars, rdVars, rfVars,
      gsVars, rpVars>>
gsOthers ==
    <<svcVars, riVars, vfVars, ldVars, rlVars, bdVars, rdVars, rfVars,
      fcVars, rpVars>>
rpOthers ==
    <<svcVars, riVars, vfVars, ldVars, rlVars, bdVars, rdVars, rfVars,
      fcVars, gsVars>>

-----------------------------------------------------------------------------
(* JavaScript values.  Every value is a record of the same shape, so that  *)
(* values of different JavaScript types can be compared (===).             *)

Str(s)  == [t |-> "string",    s |-> s,  n |-> 0, b |-> FALSE]
Num(n)  == [t |-> "number",    s |-> "", n |-> n, b |-> FALSE]
Bool(b) == [t |-> "boolean",   s |-> "", n |-> 0, b |-> b]
Null    == [t |-> "null",      s |-> "", n |-> 0, b |-> FALSE]
Undef   == [t |-> "undefined", s |-> "", n |-> 0, b |-> FALSE]

\* typeof v === "string"
IsString(v) == v.t = "string"

\* the string a template literal `${v}` or String(v) produces
ToStr(v) ==
    CASE v.t = "string"    -> v.s
      [] v.t = "number"    -> ToString(v.n)
      [] v.t = "boolean"   -> (IF v.b THEN "true" ELSE "false")
      [] v.t = "null"      -> "null"
      [] v.t = "undefined" -> "undefined"

\* JavaScript truthiness (!!v)
Truthy(v) ==
    CASE v.t = "string"    -> v.s # ""
      [] v.t = "number"    -> v.n # 0
      [] v.t = "boolean"   -> v.b
      [] v.t = "null"      -> FALSE
      [] v.t = "undefined" -> FALSE

\* String.prototype.trim, over strings whose only white space is " "
RECURSIVE TrimStart(_)
TrimStart(s) ==
    IF Len(s) = 0 THEN ""
    ELSE IF SubSeq(s, 1, 1) = " " THEN TrimStart(SubSeq(s, 2, Len(s)))
    ELSE s

RECURSIVE TrimEnd(_)
TrimEnd(s) ==
    IF Len(s) = 0 THEN ""
    ELSE IF SubSeq(s, Len(s), Len(s)) = " "
           THEN TrimEnd(SubSeq(s, 1, Len(s) - 1))
    ELSE s

Trim(s) == TrimEnd(TrimStart(s))

-----------------------------------------------------------------------------
(* Filter / query builder: getFormResponsesWithFilters                      *)

Services == {"supabase", "graphql"}

\* the operators of the table, and one the builders do not know
Operators ==
    {"contains", "startsWith", "endsWith", "equals", "isTrue", "isFalse",
     "greaterThan", "lessThan", "greaterThanOrEqual", "lessThanOrEqual"}

\* a skip test that forgets null
FilterApplied_NoNullCheck(filter) ==
    /\ filter.value # Str("")
    /\ filter.value # Undef
    /\ filter.value # Bool(FALSE)

\* the filter is applied: its value is not '', null, undefined or false
FilterApplied(filter) ==
    /\ filter.value # Str("")
    /\ filter.value # Null
    /\ filter.value # Undef
    /\ filter.value # Bool(FALSE)

\* an isTextSearch that forgets the typeof test of equals
IsTextSearch_EqualsAlwaysText(filter) ==
    \/ filter.operator = "contains"
    \/ filter.operator = "startsWith"
    \/ filter.operator = "endsWith"
    \/ filter.operator = "equals"

\* isTextSearch: extract the JSON field as text (->>) rather than as JSON (->)
IsTextSearch(filter) ==
    \/ filter.operator = "contains"
    \/ filter.operator = "startsWith"
    \/ filter.operator = "endsWith"
    \/ (filter.operator = "equals" /\ IsString(filter.value))

\* jsonPath: `data->>${fieldName}` or `data->${fieldName}`
JsonPath(fieldName, filter) ==
    [column |-> "data",
     arrow  |-> IF IsTextSearch(filter) THEN "->>" ELSE "->",
     field  |-> fieldName]

Constraint(path, op, arg) == [path |-> path, op |-> op, arg |-> arg]

\* the switch of SupabaseService: the constraints one applied filter adds
SupabaseOperatorSwitch(fieldName, filter) ==
    LET jsonPath == JsonPath(fieldName, filter)
        v == filter.value
    IN  CASE filter.operator = "contains" ->
               <<Constraint(jsonPath, "ilike", Str("%" \o ToStr(v) \o "%"))>>
          [] filter.operator = "equals" ->
               <<Constraint(jsonPath, "eq", v)>>
          [] filter.operator = "isTrue" ->
               <<Constraint(jsonPath, "eq", Bool(TRUE))>>
          [] filter.operator = "isFalse" ->
               <<Constraint(jsonPath, "eq", Bool(FALSE))>>
          [] filter.operator = "greaterThan" ->
               <<Constraint(jsonPath, "gt", v)>>
          [] filter.operator = "lessThan" ->
               <<Constraint(jsonPath, "lt", v)>>
          [] filter.operator = "startsWith" ->
               <<Constraint(jsonPath, "ilike", Str(ToStr(v) \o "%"))>>
          [] filter.operator = "endsWith" ->
               <<Constraint(jsonPath, "ilike", Str("%" \o ToStr(v)))>>
          [] OTHER -> <<>>

\* the if / else-if chain of GraphQLService
GraphQLOperatorChain(fieldName, filter) ==
    LET jsonPath == JsonPath(fieldName, filter)
        v == filter.value
    IN  IF filter.operator = "contains"
          THEN <<Constraint(jsonPath, "ilike", Str("%" \o ToStr(v) \o "%"))>>
        ELSE IF filter.operator = "equals"
          THEN <<Constraint(jsonPath, "eq", v)>>
        ELSE IF filter.operator = "isTrue"
          THEN <<Constraint(jsonPath, "eq", Bool(TRUE))>>
        ELSE IF filter.operator = "isFalse"
          THEN <<Constraint(jsonPath, "eq", Bool(FALSE))>>
        ELSE IF filter.operator = "greaterThan"
          THEN <<Constraint(jsonPath, "gt", v)>>
        ELSE IF filter.operator = "lessThan"
          THEN <<Constraint(jsonPath, "lt", v)>>
        ELSE IF filter.operator = "startsWith"
          THEN <<Constraint(jsonPath, "ilike", Str(ToStr(v) \o "%"))>>
        ELSE IF filter.operator = "endsWith"
          THEN <<Constraint(jsonPath, "ilike", Str("%" \o ToStr(v)))>>
        ELSE IF filter.operator = "greaterThanOrEqual"
          THEN <<Constraint(jsonPath, "gte", v)>>
        ELSE IF filter.operator = "lessThanOrEqual"
          THEN <<Constraint(jsonPath, "lte", v)>>
        ELSE <<>>

\* the body of Object.entries(filters).forEach for one entry
ApplyFilterEntry(svc, entry) ==
    IF FilterApplied(entry.filter)
      THEN IF svc = "supabase"
             THEN SupabaseOperatorSwitch(entry.fieldName, entry.filter)
             ELSE GraphQLOperatorChain(entry.fieldName, entry.filter)
      ELSE <<>>

\* Object.entries(filters).forEach(...): entries in insertion order
RECURSIVE ApplyFilters(_, _)
ApplyFilters(svc, entries) ==
    IF entries = <<>> THEN <<>>
    ELSE ApplyFilterEntry(svc, Head(entries)) \o ApplyFilters(svc, Tail(entries))

\* const from = (page - 1) * pageSize
RangeFrom(page, pageSize) == (page - 1) * pageSize

\* const to = from + pageSize - 1
RangeTo(page, pageSize) == RangeFrom(page, pageSize) + pageSize - 1

\* the query as built before it is awaited
BuildQuery(svc, formId, entries, page, pageSize) ==
    [table       |-> "responses",
     select      |-> "*",
     count       |-> "exact",
     formIdEq    |-> formId,
     orderBy     |-> "created_at",
     ascending   |-> FALSE,
     constraints |-> ApplyFilters(svc, entries),
     from        |-> RangeFrom(page, pageSize),
     to          |-> RangeTo(page, pageSize)]

\* Math.floor in the place of Math.ceil
MathCeilDiv_Floor(a, b) == a \div b

\* Math.ceil(a / b) for a >= 0, b >= 1
MathCeilDiv(a, b) == IF a % b = 0 THEN a \div b ELSE (a \div b) + 1

\* count || 0   (count is null when the backend sends none; NoCount is null)
NoCount == -1
CountOrZero(count) == IF count = NoCount \/ count = 0 THEN 0 ELSE count

\* the object the call returns
PaginatedResponse(count, page, pageSize) ==
    [total      |-> CountOrZero(count),
     page       |-> page,
     pageSize   |-> pageSize,
     totalPages |-> MathCeilDiv(CountOrZero(count), pageSize)]

-----------------------------------------------------------------------------
(* SpecFilter: calls of getFormResponsesWithFilters on either service       *)

MaxPage  == 3           \* pages 1..MaxPage are requested
MaxTotal == 25          \* the backend counts 0..MaxTotal rows
PageSizes == {1, 2, 3, 10}
FormIds == {"formA"}
FieldNames == <<"f1", "f2">>

FilterValues ==
    {Str(""), Null, Undef, Bool(FALSE), Bool(TRUE), Str("a"), Num(5)}

Filters == [operator : Operators, value : FilterValues]

\* the entries of a filters object whose keys are fields k..Len(FieldNames)
RECURSIVE FilterEntriesFrom(_)
FilterEntriesFrom(k) ==
    IF k > Len(FieldNames) THEN {<<>>}
    ELSE LET rest == FilterEntriesFrom(k + 1)
         IN  rest \cup
             {<<[fieldName |-> FieldNames[k], filter |-> f]>> \o r :
                 f \in Filters, r \in rest}

FilterEntries == FilterEntriesFrom(1)

NoCall   == [svc |-> "none", formId |-> "", entries |-> <<>>,
             page |-> 0, pageSize |-> 0]
NoQuery  == [table |-> "", select |-> "", count |-> "", formIdEq |-> "",
             orderBy |-> "", ascending |-> TRUE, constraints |-> <<>>,
             from |-> 0, to |-> 0]
NoResult == [total |-> 0, page |-> 0, pageSize |-> 0, totalPages |-> 0]

\* no call of the service is in flight
SvcIdle ==
    /\ svcPc = "idle"
    /\ svcCall = NoCall
    /\ svcQuery = NoQuery
    /\ svcResult = NoResult

\* the synchronous part of the call: the query is built, then awaited
CallService(svc, formId, entries, page, pageSize) ==
    /\ svcPc = "idle"
    /\ svcPc' = "awaiting"
    /\ svcCall' = [svc |-> svc, formId |-> formId, entries |-> entries,
                   page |-> page, pageSize |-> pageSize]
    /\ svcQuery' = BuildQuery(svc, formId, entries, page, pageSize)
    /\ svcResult' = NoResult
    /\ UNCHANGED svcOthers

\* const { data, error, count } = await query, without error
BackendReplies(count) ==
    /\ svcPc = "awaiting"
    /\ svcPc' = "returned"
    /\ svcResult' = PaginatedResponse(count, svcCall.page, svcCall.pageSize)
    /\ svcCall' = NoCall
    /\ svcQuery' = NoQuery
    /\ UNCHANGED svcOthers

\* if (error) throw error
BackendFails ==
    /\ svcPc = "awaiting"
    /\ svcPc' = "thrown"
    /\ svcResult' = NoResult
    /\ svcCall' = NoCall
    /\ svcQuery' = NoQuery
    /\ UNCHANGED svcOthers

\* the caller has taken the result (or the error); the next call may start
CallerResumes ==
    /\ svcPc \in {"returned", "thrown"}
    /\ svcPc' = "idle"
    /\ svcResult' = NoResult
    /\ UNCHANGED <<svcCall, svcQuery>>
    /\ UNCHANGED svcOthers

\* The constraints read only the filters and the range reads only page and
\* pageSize, so the calls explored vary one of the two at a time: every
\* filters object on the default page, and every page with few filters.
DefaultPage == 1
DefaultPageSize == 10
CallInputs ==
    {[entries |-> e, page |-> DefaultPage, pageSize |-> DefaultPageSize] :
        e \in FilterEntries}
    \cup
    {[entries |-> e, page |-> p, pageSize |-> ps] :
        e \in {x \in FilterEntries : Len(x) = 0}, p \in 1..MaxPage,
        ps \in PageSizes}

NextFilter ==
    \/ \E svc \in Services, formId \in FormIds, in \in CallInputs :
          CallService(svc, formId, in.entries, in.page, in.pageSize)
    \/ \E count \in {NoCount} \cup (0..MaxTotal) : BackendReplies(count)
    \/ BackendFails
    \/ CallerResumes

-----------------------------------------------------------------------------
(* ResponsesIndex: the filter state of the response browser and the         *)
(* fetchResponses effect that turns it into a service call                  *)

FieldTypes ==
    {"text", "email", "textarea", "number", "select", "radio", "checkbox",
     "date", "relation"}

\* the field ids of the browsed form, in schema order
IndexFieldIds == <<"f1", "f2">>

\* the schemas browsed: any type first, a text field or a checkbox second
IndexSchemas ==
    {f \in [1..Len(IndexFieldIds) -> FieldTypes] :
        f[Len(IndexFieldIds)] \in {"text", "checkbox"}}

\* what the filter inputs can hand to handleFilterChange
FilterInputValues == {"", "a", "true", "false", "__all__"}

\* what the search box can hold
SearchTerms == {"", " ", "a"}

\* pageSizes
IndexPageSizes == {10, 25, 50, 100}

\* getImplicitOperator (the relation case exists in the supabase page only;
\* in the other page relation falls to the default, which is equals as well)
GetImplicitOperator(svc, fieldType) ==
    CASE fieldType \in {"text", "email", "textarea"} -> "contains"
      [] fieldType = "checkbox" -> "isTrue"
      [] fieldType \in {"select", "radio", "dropdown"} -> "equals"
      [] fieldType = "relation" /\ svc = "supabase" -> "equals"
      [] OTHER -> "equals"

\* activeFilters[fieldId] = filter on an object that keeps insertion order
RECURSIVE SetEntry(_, _, _)
SetEntry(entries, fieldId, filter) ==
    IF entries = <<>> THEN <<[fieldName |-> fieldId, filter |-> filter]>>
    ELSE IF Head(entries).fieldName = fieldId
           THEN <<[fieldName |-> fieldId, filter |-> filter]>> \o Tail(entries)
    ELSE <<Head(entries)>> \o SetEntry(Tail(entries), fieldId, filter)

\* activeFilters[fieldId] is set
HasEntry(entries, fieldId) ==
    \E i \in 1..Len(entries) : entries[i].fieldName = fieldId

\* first loop of fetchResponses: the search term on the text fields 1..k
RECURSIVE SearchPass(_, _, _)
SearchPass(fields, term, k) ==
    IF k = 0 THEN <<>>
    ELSE LET before == SearchPass(fields, term, k - 1)
         IN  IF fields[k] \in {"text", "email", "textarea"}
               THEN SetEntry(before, IndexFieldIds[k],
                             [operator |-> "contains", value |-> Str(Trim(term))])
               ELSE before

\* the second loop without the "false" branch of its checkbox handling
ImplicitFilter_NoFalseCase(svc, fieldType, value) ==
    LET op0 == GetImplicitOperator(svc, fieldType)
        isBox == fieldType = "checkbox"
        op1 == IF isBox /\ value = "true" THEN "isTrue" ELSE op0
        val == IF isBox /\ value = "true" THEN Bool(TRUE) ELSE Str(value)
        op2 == IF \/ fieldType \in {"select", "radio", "dropdown"}
                  \/ (fieldType = "relation" /\ svc = "supabase")
                 THEN "equals" ELSE op1
    IN  [operator |-> op2, value |-> val]

\* the operator and value the second loop gives to one field
ImplicitFilter(svc, fieldType, value) ==
    LET op0 == GetImplicitOperator(svc, fieldType)
        isBox == fieldType = "checkbox"
        op1 == IF isBox /\ value = "true" THEN "isTrue"
               ELSE IF isBox /\ value = "false" THEN "isFalse"
               ELSE op0
        val == IF isBox /\ value = "true" THEN Bool(TRUE)
               ELSE IF isBox /\ value = "false" THEN Bool(FALSE)
               ELSE Str(value)
        op2 == IF \/ fieldType \in {"select", "radio", "dropdown"}
                  \/ (fieldType = "relation" /\ svc = "supabase")
                 THEN "equals" ELSE op1
    IN  [operator |-> op2, value |-> val]

\* second loop of fetchResponses: the field filters of fields 1..k
RECURSIVE FieldPass(_, _, _, _, _)
FieldPass(svc, fields, values, start, k) ==
    IF k = 0 THEN start
    ELSE LET before == FieldPass(svc, fields, values, start, k - 1)
             value == values[k]
         IN  IF ~Truthy(Str(value)) \/ value = "" \/ value = "__all__"
               THEN before
             ELSE IF ~HasEntry(before, IndexFieldIds[k]) \/ fields[k] # "text"
               THEN SetEntry(before, IndexFieldIds[k],
                             ImplicitFilter(svc, fields[k], value))
             ELSE before

\* activeFilters as fetchResponses builds it
ActiveFilters(svc, fields, values, term) ==
    LET searched == IF Trim(term) # ""
                      THEN SearchPass(fields, term, Len(fields))
                      ELSE <<>>
    IN  FieldPass(svc, fields, values, searched, Len(fields))

\* fetchResponses up to its await: the query the page issues
FetchResponses(svc, fields, values, term, page, pageSize) ==
    /\ riActive' = ActiveFilters(svc, fields, values, term)
    /\ riQuery' = BuildQuery(svc, "formA",
                             ActiveFilters(svc, fields, values, term),
                             page, pageSize)

\* the page after fetchFormDetails: every filter value is "", and the effect
\* has issued the first fetchResponses
InitIndex ==
    /\ riService \in Services
    /\ riFields \in IndexSchemas
    /\ riFilters = [k \in 1..Len(IndexFieldIds) |-> ""]
    /\ riSearchTerm = ""
    /\ riCurrentPage = 1
    /\ riPageSize = 10
    /\ riActive = <<>>
    /\ riQuery = BuildQuery(riService, "formA", <<>>, 1, 10)

\* handleFilterChange, and the fetchResponses effect its state change fires
HandleFilterChange(k, value) ==
    LET actualValue == IF value = "__all__" THEN "" ELSE value
        newFilters == [riFilters EXCEPT ![k] = actualValue]
    IN  /\ riFilters' = newFilters
        /\ riCurrentPage' = 1
        /\ FetchResponses(riService, riFields, newFilters, riSearchTerm,
                          1, riPageSize)
        /\ UNCHANGED <<riService, riFields, riSearchTerm, riPageSize, riOthers>>

\* the search input's onChange, and the effect
HandleSearchChange(term) ==
    /\ riSearchTerm' = term
    /\ riCurrentPage' = 1
    /\ FetchResponses(riService, riFields, riFilters, term, 1, riPageSize)
    /\ UNCHANGED <<riService, riFields, riFilters, riPageSize, riOthers>>

\* clearFilters, and the effect
ClearFilters ==
    /\ riFilters' = [k \in 1..Len(IndexFieldIds) |-> ""]
    /\ riSearchTerm' = ""
    /\ riCurrentPage' = 1
    /\ FetchResponses(riService, riFields, riFilters', "", 1, riPageSize)
    /\ UNCHANGED <<riService, riFields, riPageSize, riOthers>>

\* the rows-per-page select, and the effect
HandlePageSizeChange(size) ==
    /\ riPageSize' = size
    /\ riCurrentPage' = 1
    /\ FetchResponses(riService, riFields, riFilters, riSearchTerm, 1, size)
    /\ UNCHANGED <<riService, riFields, riFilters, riSearchTerm, riOthers>>

NextIndex ==
    \/ \E k \in 1..Len(IndexFieldIds), value \in FilterInputValues :
          HandleFilterChange(k, value)
    \/ \E term \in SearchTerms : HandleSearchChange(term)
    \/ ClearFilters
    \/ \E size \in IndexPageSizes : HandlePageSizeChange(size)

\* the page is not mounted
IndexParked ==
    /\ riService = "supabase"
    /\ riFields = <<>>
    /\ riFilters = <<>>
    /\ riSearchTerm = ""
    /\ riCurrentPage = 1
    /\ riPageSize = 10
    /\ riActive = <<>>
    /\ riQuery = NoQuery

-----------------------------------------------------------------------------
(* Form validator: validateForm of SubmitForm and of EditResponse           *)

\* the character at position i of s
CharAt(s, i) == SubSeq(s, i, i)

\* an email test that forgets the ".tld" part: /^[^\s@]+@[^\s@]+$/
EmailRegexTest_NoTld(s) ==
    LET n == Len(s)
    IN  \E i \in 2..(n - 1) :
            /\ CharAt(s, i) = "@"
            /\ \A m \in (1..n) \ {i} : CharAt(s, m) \notin {" ", "@"}

\* emailRegex.test(s) for /^[^\s@]+@[^\s@]+\.[^\s@]+$/
EmailRegexTest(s) ==
    LET n == Len(s)
    IN  \E i \in 2..(n - 3) :
            /\ CharAt(s, i) = "@"
            /\ \A m \in (1..n) \ {i} : CharAt(s, m) \notin {" ", "@"}
            /\ \E j \in (i + 2)..(n - 1) : CharAt(s, j) = "."

Digits == {"0", "1", "2", "3", "4", "5", "6", "7", "8", "9"}

\* isNaN(Number(s)) for a string of digits, ".", letters and blanks (no sign,
\* exponent or radix prefix): Number trims, reads "" as 0, and otherwise
\* wants digits with at most one "."
IsNaNNumber(s) ==
    LET t == Trim(s)
        n == Len(t)
        dots == {i \in 1..n : CharAt(t, i) = "."}
        digits == {i \in 1..n : CharAt(t, i) \in Digits}
    IN  /\ n > 0
        /\ ~ ( /\ dots \cup digits = 1..n
               /\ Cardinality(dots) <= 1
               /\ digits # {} )

\* the required check of validateForm
RequiredMessage(page, field, value) ==
    IF ~field.required THEN ""
    ELSE IF field.type = "checkbox"
      THEN (IF ~Truthy(value) THEN "required" ELSE "")
    ELSE IF page = "EditResponse" /\ field.type \in {"select", "radio", "relation"}
      THEN (IF ~Truthy(value) \/ Trim(ToStr(value)) = "" THEN "select" ELSE "")
    ELSE (IF ~Truthy(value) \/ Trim(ToStr(value)) = "" THEN "required" ELSE "")

\* value.trim() is reached with a value that is not a string: TypeError
TrimThrows(field, value) ==
    /\ field.type \in {"email", "number"}
    /\ Truthy(value)
    /\ ~IsString(value)

\* the email check
EmailMessage(field, value) ==
    IF /\ field.type = "email" /\ Truthy(value) /\ Trim(value.s) # ""
       /\ ~EmailRegexTest(value.s)
      THEN "email" ELSE ""

\* the number check
NumberMessage(field, value) ==
    IF /\ field.type = "number" /\ Truthy(value) /\ Trim(value.s) # ""
       /\ IsNaNNumber(value.s)
      THEN "number" ELSE ""

\* the relation check (EditResponse only)
RelationMessage(page, field, value, related) ==
    IF /\ page = "EditResponse"
       /\ field.type = "relation" /\ field.required /\ Truthy(value)
       /\ ~(\E r \in related : Str(r) = value)
      THEN "relation" ELSE ""

\* newErrors[field.id] after the body of fields.forEach for one field: the
\* checks run in order and a later message overwrites an earlier one
FieldMessage(page, field, value, related) ==
    LET m1 == RequiredMessage(page, field, value)
        m2 == EmailMessage(field, value)
        m3 == NumberMessage(field, value)
        m4 == RelationMessage(page, field, value, related)
    IN  IF m4 # "" THEN m4
        ELSE IF m3 # "" THEN m3
        ELSE IF m2 # "" THEN m2
        ELSE m1

\* validateForm: newErrors, or the TypeError of the first value.trim()
ValidateForm(page, fields, data, related) ==
    [threw  |-> \E k \in 1..Len(fields) : TrimThrows(fields[k], data[k]),
     errors |-> [k \in 1..Len(fields) |->
                    IF TrimThrows(fields[k], data[k]) THEN ""
                    ELSE FieldMessage(page, fields[k], data[k], related[k])]]

\* Object.keys(newErrors).length === 0
NoErrors(errors) == \A k \in 1..Len(errors) : errors[k] = ""

\* the check EditResponse (graphql page) makes instead of validateForm:
\* missingFields = formFields.filter(f => f.required && !formData[f.id])
MissingFields(fields, data) ==
    {k \in 1..Len(fields) : fields[k].required /\ ~Truthy(data[k])}

MaxLen == 5             \* the longest value typed into an email field
MaxShortLen == 3        \* the longest value typed into any other field

\* the strings of at most n characters over an alphabet
RECURSIVE Strings(_, _)
Strings(alphabet, n) ==
    IF n = 0 THEN {""}
    ELSE LET shorter == Strings(alphabet, n - 1)
         IN  shorter \cup {t \o c : t \in shorter, c \in alphabet}

RelatedIds == {"r1"}

\* the values a field of the type can hold after user input
ValuesOfType(type) ==
    CASE type = "email" ->
           {Str(t) : t \in Strings({"a", "@", ".", " "}, MaxLen)}
      [] type = "number" ->
           {Str(t) : t \in Strings({"1", ".", "a", " "}, MaxShortLen)}
      [] type = "checkbox" -> {Bool(TRUE), Bool(FALSE)}
      [] type = "relation" -> {Str(""), Str("r1"), Str("r2")}
      [] type \in {"select", "radio"} -> {Str(""), Str("a")}
      [] OTHER -> {Str(t) : t \in Strings({"a", " "}, MaxShortLen)}

FormFields == [type : FieldTypes, required : BOOLEAN]

\* a second field beside the one under test, with its value
SecondFields ==
    {<<[type |-> "text", required |-> TRUE], Str(" ")>>,
     <<[type |-> "text", required |-> TRUE], Str("a")>>,
     <<[type |-> "email", required |-> FALSE], Str("")>>,
     <<[type |-> "email", required |-> FALSE], Str("a@a")>>}

\* validateForm is about to run on a form of two fields
InitValidate ==
    /\ vfPage \in {"SubmitForm", "EditResponse"}
    /\ \E f1 \in FormFields, second \in SecondFields :
          /\ vfFields = <<f1, second[1]>>
          /\ \E v1 \in ValuesOfType(f1.type) : vfData = <<v1, second[2]>>
          /\ \E rel \in SUBSET RelatedIds :
                vfRelated = <<IF f1.type = "relation" THEN rel ELSE {}, {}>>
    /\ vfErrors = <<"", "">>
    /\ vfPc = "editing"
    /\ vfSent = <<>>

\* validateForm returns: setErrors(newErrors)
ValidateReturns ==
    LET res == ValidateForm(vfPage, vfFields, vfData, vfRelated)
    IN  /\ vfPc = "editing"
        /\ ~res.threw
        /\ vfErrors' = res.errors
        /\ vfPc' = "validated"
        /\ UNCHANGED <<vfPage, vfFields, vfData, vfRelated, vfSent, vfOthers>>

NextValidate == ValidateReturns

\* no form is open
FormParked ==
    /\ vfPage = "none"
    /\ vfFields = <<>>
    /\ vfData = <<>>
    /\ vfRelated = <<>>
    /\ vfErrors = <<>>
    /\ vfPc = "editing"
    /\ vfSent = <<>>

-----------------------------------------------------------------------------
(* SubmitForm.handleSubmit, EditResponse.handleUpdate (supabase page) and   *)
(* EditResponse.handleSubmit (graphql page)                                 *)

\* the forms filled in: a field of a validated type, then one more field
SubmitSchemas ==
    {<<f1, f2>> : f1 \in [type : {"text", "email", "number", "checkbox"},
                          required : BOOLEAN],
                  f2 \in {[type |-> "text", required |-> TRUE],
                          [type |-> "email", required |-> FALSE]}}

\* what the inputs of a field of the type hand to handleInputChange
InputsOfType(type) ==
    CASE type = "email"    -> {Str(""), Str(" "), Str("a@a"), Str("a@a.a")}
      [] type = "number"   -> {Str(""), Str("1"), Str("a")}
      [] type = "checkbox" -> {Bool(TRUE), Bool(FALSE)}
      [] OTHER             -> {Str(""), Str(" "), Str("a")}

\* initialData of SubmitForm.fetchForm and of handleSubmitAnother
DefaultValue(field) == IF field.type = "checkbox" THEN Bool(FALSE) ELSE Str("")

\* initialData[field.id] = value || false, value || "" (EditResponse.fetchData)
ValueOrDefault(field, value) ==
    IF Truthy(value) THEN value ELSE DefaultValue(field)

\* what the data of a stored response can hold under a field of the type:
\* what the inputs produce, nothing, and for an email or number field a JSON
\* number or boolean
StoredOfType(type) ==
    InputsOfType(type) \cup {Undef}
    \cup (IF type \in {"email", "number"}
            THEN {Num(0), Num(5), Bool(TRUE)} ELSE {})

\* the form as the page shows it once loaded
InitSubmit ==
    /\ vfPage \in {"SubmitForm", "EditResponse", "EditResponseGql"}
    /\ vfFields \in SubmitSchemas
    /\ \E stored \in [1..2 -> UNION {StoredOfType(t) : t \in FieldTypes}] :
          /\ \A k \in 1..2 : stored[k] \in StoredOfType(vfFields[k].type)
          /\ vfData =
                CASE vfPage = "SubmitForm" ->
                       [k \in 1..2 |-> DefaultValue(vfFields[k])]
                  [] vfPage = "EditResponse" ->
                       [k \in 1..2 |-> ValueOrDefault(vfFields[k], stored[k])]
                  [] vfPage = "EditResponseGql" -> stored
    /\ vfRelated = <<{}, {}>>
    /\ vfErrors = <<"", "">>
    /\ vfPc = "editing"
    /\ vfSent = <<>>

\* handleInputChange / handleFieldChange: the value is stored and, where the
\* page keeps errors, the field's error is dropped
HandleInputChange(k, value) ==
    /\ vfPc \in {"editing", "rejected", "submitting"}
    /\ vfData' = [vfData EXCEPT ![k] = value]
    /\ vfErrors' = IF vfPage = "EditResponseGql" THEN vfErrors
                   ELSE [vfErrors EXCEPT ![k] = ""]
    /\ vfPc' = IF vfPc = "rejected" THEN "editing" ELSE vfPc
    /\ UNCHANGED <<vfPage, vfFields, vfRelated, vfSent, vfOthers>>

\* the handler accepts the form: the values are free of errors (validateForm)
\* or of missing required fields (graphql page)
SubmitAccepted(page, fields, data, related) ==
    IF page = "EditResponseGql" THEN MissingFields(fields, data) = {}
    ELSE LET res == ValidateForm(page, fields, data, related)
         IN  ~res.threw /\ NoErrors(res.errors)

\* handleSubmit / handleUpdate up to the await of the service call
HandleSubmit ==
    LET res == ValidateForm(vfPage, vfFields, vfData, vfRelated)
        ok == SubmitAccepted(vfPage, vfFields, vfData, vfRelated)
    IN  /\ vfPc \in {"editing", "rejected"}
        /\ vfErrors' = IF vfPage = "EditResponseGql" \/ res.threw
                         THEN vfErrors ELSE res.errors
        /\ vfPc' = IF vfPage # "EditResponseGql" /\ res.threw THEN "threw"
                   ELSE IF ok THEN "submitting" ELSE "rejected"
        /\ vfSent' = IF ok THEN vfData ELSE vfSent
        /\ UNCHANGED <<vfPage, vfFields, vfData, vfRelated, vfOthers>>

\* the service call returns the stored record
RequestSucceeds ==
    /\ vfPc = "submitting"
    /\ vfPc' = "done"
    /\ vfErrors' = IF vfPage = "EditResponseGql" THEN vfErrors
                   ELSE [k \in 1..Len(vfErrors) |-> ""]
    /\ vfSent' = <<>>
    /\ UNCHANGED <<vfPage, vfFields, vfData, vfRelated, vfOthers>>

\* the service call throws, or returns nothing: a toast, and the form stays
RequestFails ==
    /\ vfPc = "submitting"
    /\ vfPc' = "editing"
    /\ vfSent' = <<>>
    /\ UNCHANGED <<vfPage, vfFields, vfData, vfRelated, vfErrors, vfOthers>>

\* SubmitForm.handleSubmitAnother
HandleSubmitAnother ==
    /\ vfPage = "SubmitForm"
    /\ vfPc = "done"
    /\ vfData' = [k \in 1..Len(vfFields) |-> DefaultValue(vfFields[k])]
    /\ vfErrors' = [k \in 1..Len(vfErrors) |-> ""]
    /\ vfPc' = "editing"
    /\ UNCHANGED <<vfPage, vfFields, vfRelated, vfSent, vfOthers>>

NextSubmit ==
    \/ \E k \in 1..2 :
          \E value \in InputsOfType(vfFields[k].type) :
              HandleInputChange(k, value)
    \/ HandleSubmit
    \/ RequestSucceeds
    \/ RequestFails
    \/ HandleSubmitAnother

-----------------------------------------------------------------------------
(* fetchData of ShowResponse (both variants) and EditResponse (both)        *)

RouteFormIds == {"1", "2"}
RouteResponseIds == {"10"}

\* response.form_id as the backend returns it: a string, or a number
FormIdValues == {Str("1"), Str("2"), Num(1)}

\* getFormById(formId): the row, or null.  The retry with Number(formId)
\* addresses the same row.
FormFound(forms, formId) == formId \in forms

\* getResponseById(responseId): form_id of the row, Undef for null
ResponseRow(responses, responseId) == responses[responseId]

\* the test that lets fetchData go on after the response was fetched
BelongsToForm(page, formIdOfResponse, formId) ==
    CASE page = "ShowResponseGql" -> formIdOfResponse = Str(formId)
      [] page \in {"ShowResponse", "EditResponse"} ->
             ToStr(formIdOfResponse) = formId
      [] page = "EditResponseGql" -> TRUE

\* where the page ends when a lookup finds nothing
NotFoundState(page, what) ==
    IF page = "EditResponseGql" THEN "navigatedAway" ELSE what

InitLoad ==
    /\ ldPage \in {"ShowResponseGql", "ShowResponse", "EditResponse",
                  "EditResponseGql"}
    /\ ldFormId \in RouteFormIds
    /\ ldResponseId \in RouteResponseIds
    /\ ldForms \in SUBSET RouteFormIds
    /\ ldResponses \in [RouteResponseIds -> FormIdValues \cup {Undef}]
    /\ ldPc = "start"
    /\ ldResponse = Undef
    /\ ldUpdated = Undef

\* fetchData up to the fetch of the response
LoadForm ==
    /\ ldPc = "start"
    /\ ldPc' = IF FormFound(ldForms, ldFormId) THEN "formLoaded"
               ELSE NotFoundState(ldPage, "formNotFound")
    /\ UNCHANGED <<ldPage, ldFormId, ldResponseId, ldForms, ldResponses,
                   ldResponse, ldUpdated, ldOthers>>

\* fetchData from the fetch of the response to its end
LoadResponse ==
    LET row == ResponseRow(ldResponses, ldResponseId)
    IN  /\ ldPc = "formLoaded"
        /\ IF row = Undef
             THEN /\ ldPc' = NotFoundState(ldPage, "responseNotFound")
                  /\ ldResponse' = ldResponse
             ELSE IF ~BelongsToForm(ldPage, row, ldFormId)
             THEN /\ ldPc' = "responseNotFound"
                  /\ ldResponse' = ldResponse
             ELSE /\ ldPc' = "loaded"
                  /\ ldResponse' = row
        /\ UNCHANGED <<ldPage, ldFormId, ldResponseId, ldForms, ldResponses,
                       ldUpdated, ldOthers>>

\* handleUpdate / handleSubmit of the loaded edit page:
\* updateResponse(responseId, formData)
IssueUpdate ==
    /\ ldPage \in {"EditResponse", "EditResponseGql"}
    /\ ldPc = "loaded"
    /\ ldUpdated = Undef
    /\ ldUpdated' = ResponseRow(ldResponses, ldResponseId)
    /\ UNCHANGED <<ldPage, ldFormId, ldResponseId, ldForms, ldResponses, ldPc,
                   ldResponse, ldOthers>>

NextLoad == LoadForm \/ LoadResponse \/ IssueUpdate

\* no response page is open
LoadParked ==
    /\ ldPage = "none"
    /\ ldFormId = ""
    /\ ldResponseId = ""
    /\ ldForms = {}
    /\ ldResponses = <<>>
    /\ ldPc = "start"
    /\ ldResponse = Undef
    /\ ldUpdated = Undef

-----------------------------------------------------------------------------
(* Relation resolver: fetchRelatedFormData (ShowResponse, ResponsesIndex),  *)
(* fetchRelatedResponses (EditResponse), fetchRelationOptions (EditResponse *)
(* of the graphql page) and getRelationDisplayValue                         *)

\* the keys of the target form's fields, in schema (and data) order
TargetKeys == <<"a", "b">>
TextTypes == {"text", "email", "textarea"}

TargetResponseIds == <<"aaaaaaaa-1", "bbbbbbbb-2">>
UnmatchedId == "cccccccc-3"

\* relationConfig.displayField: a key of the target form, or unset
NoDisplayField == ""
DisplayFields == {NoDisplayField, "a", "b"}

\* data[key] of a response
DataAt(data, key) ==
    IF \E i \in 1..Len(TargetKeys) : TargetKeys[i] = key
      THEN data[CHOOSE i \in 1..Len(TargetKeys) : TargetKeys[i] = key]
      ELSE Undef

\* s.substring(0, 8)
IdPrefix(s) == IF Len(s) > 8 THEN SubSeq(s, 1, 8) ELSE s

\* `Response ${id.substring(0, 8)}...`
ResponseLabel(id) == "Response " \o IdPrefix(id) \o "..."

\* relatedFormFields.find(f => ['text','email','textarea'].includes(f.type)):
\* the key of the field found, or none
TextFieldKey(schema) ==
    LET found == {i \in 1..Len(schema) : schema[i] \in TextTypes}
    IN  IF found = {} THEN NoDisplayField
        ELSE TargetKeys[CHOOSE i \in found : \A j \in found : i <= j]

\* displayValue of one response in fetchRelatedFormData / fetchRelationOptions
DisplayValue(displayField, schema, response) ==
    IF /\ displayField # NoDisplayField
       /\ Truthy(DataAt(response.data, displayField))
      THEN ToStr(DataAt(response.data, displayField))
    ELSE IF /\ TextFieldKey(schema) # NoDisplayField
            /\ Truthy(DataAt(response.data, TextFieldKey(schema)))
      THEN ToStr(DataAt(response.data, TextFieldKey(schema)))
    ELSE ResponseLabel(response.id)

\* strValue.length > 50 ? strValue.substring(0, 50) + "..." : strValue
Truncate50(s) == IF Len(s) > 50 THEN SubSeq(s, 1, 50) \o "..." ELSE s

\* Object.values(data).find(val => val !== undefined && val !== null &&
\* String(val).trim() !== ""), Undef when there is none
FirstTextValue(data) ==
    LET found == {i \in 1..Len(data) :
                     /\ data[i] \notin {Undef, Null}
                     /\ Trim(ToStr(data[i])) # ""}
    IN  IF found = {} THEN Undef
        ELSE data[CHOOSE i \in found : \A j \in found : i <= j]

\* displayValue of one response in fetchRelatedResponses (EditResponse)
DisplayValueEdit(displayField, response) ==
    IF displayField = NoDisplayField THEN ResponseLabel(response.id)
    ELSE IF DataAt(response.data, displayField) \notin {Undef, Null, Str("")}
      THEN ToStr(DataAt(response.data, displayField))
    ELSE IF Truthy(FirstTextValue(response.data))
      THEN Truncate50(ToStr(FirstTextValue(response.data)))
    ELSE ResponseLabel(response.id)

\* the displayValue of the specific response fetchRelationOptions fetches
\* when the current value is not among the options
DisplayValueSpecific(displayField, response) ==
    IF /\ displayField # NoDisplayField
       /\ Truthy(DataAt(response.data, displayField))
      THEN ToStr(DataAt(response.data, displayField))
    ELSE ResponseLabel(response.id)

\* the response of another form that carries UnmatchedId
OtherResponse == [id |-> UnmatchedId, data |-> <<Str("z"), Undef>>]

\* the displays of the target form's responses under one displayField
OptionsOf(page, displayField, schema, responses) ==
    [i \in 1..Len(responses) |->
        [id |-> responses[i].id,
         displayValue |->
            IF page = "EditResponse"
              THEN DisplayValueEdit(displayField, responses[i])
              ELSE DisplayValue(displayField, schema, responses[i])]]

\* what the page holds for relation field k once its fetch has run.  All
\* relation fields point at the same target form: ShowResponse fetches a
\* form's responses once, for the first field that names it; ResponsesIndex
\* keeps one map per target form, written last for the last field.
ResolvedFor(page, k, fields, schema, responses, value, other) ==
    LET options ==
            CASE page = "ShowResponse" ->
                   OptionsOf(page, fields[1], schema, responses)
              [] page = "ResponsesIndex" ->
                   OptionsOf(page, fields[Len(fields)], schema, responses)
              [] OTHER -> OptionsOf(page, fields[k], schema, responses)
    IN  IF /\ page = "EditResponseGql"
           /\ Truthy(value)
           /\ ~(\E i \in 1..Len(options) : options[i].id = ToStr(value))
           /\ other /\ ToStr(value) = UnmatchedId
          THEN Append(options,
                      [id |-> UnmatchedId,
                       displayValue |->
                          DisplayValueSpecific(fields[k], OtherResponse)])
          ELSE options

\* getRelationDisplayValue(field, value) of the page
RelationDisplayValue(page, options, value) ==
    LET id == ToStr(value)
        match == {i \in 1..Len(options) : options[i].id = id}
        first == CHOOSE i \in match : \A j \in match : i <= j
    IN  CASE page = "EditResponseGql" ->
               IF match # {} /\ options[first].displayValue # ""
                 THEN options[first].displayValue
                 ELSE "ID: " \o IdPrefix(id) \o "..."
          [] page = "ShowResponse" ->
               IF ~Truthy(value) THEN "Not selected"
               ELSE IF match # {} THEN options[first].displayValue
               ELSE "ID: " \o IdPrefix(id) \o "..."
          [] OTHER ->
               IF ~Truthy(value) THEN "Not selected"
               ELSE IF match # {} THEN options[first].displayValue
               ELSE IF Len(options) > 0 THEN options[1].displayValue
               ELSE "Response: " \o IdPrefix(id) \o "..."

InitRelation ==
    /\ rlPage \in {"ShowResponse", "ResponsesIndex", "EditResponse",
                  "EditResponseGql"}
    /\ rlFields \in [1..1 -> DisplayFields] \cup [1..2 -> DisplayFields]
    /\ rlSchema \in [1..2 -> {"text", "number"}]
    /\ \E d1 \in [1..2 -> {Undef, Str(""), Str("x")}] :
          \/ rlResponses = <<[id |-> TargetResponseIds[1], data |-> d1]>>
          \/ \E d2 \in {<<Str("y"), Undef>>, <<Undef, Str("y")>>} :
                rlResponses = <<[id |-> TargetResponseIds[1], data |-> d1],
                                [id |-> TargetResponseIds[2], data |-> d2]>>
    /\ rlOther \in BOOLEAN
    /\ rlValue \in {Str(TargetResponseIds[1]), Str(UnmatchedId), Undef}
    /\ rlMap = <<>>
    /\ rlPc = "loading"
    /\ rlFetches = 0
    /\ rlShown = ""

\* the getFormResponses(formId) calls of one pass over the relation fields
\* (all of one target form): ShowResponse skips a form it already holds in
\* newRelatedFormData, the other pages fetch inside the loop over the fields
FetchCalls(page, fields) ==
    IF page = "ShowResponse" THEN (IF Len(fields) > 0 THEN 1 ELSE 0)
    ELSE Len(fields)

\* the page's fetch of the related data, for all its relation fields
FetchRelated ==
    /\ rlPc = "loading"
    /\ rlFetches' = FetchCalls(rlPage, rlFields)
    /\ rlMap' = [k \in 1..Len(rlFields) |->
                    ResolvedFor(rlPage, k, rlFields, rlSchema, rlResponses,
                                rlValue, rlOther)]
    /\ rlPc' = "resolved"
    /\ UNCHANGED <<rlPage, rlFields, rlSchema, rlResponses, rlOther, rlValue,
                   rlShown, rlOthers>>

\* the page renders the stored value of relation field k
ShowRelationValue(k) ==
    /\ rlPc = "resolved"
    /\ rlPage # "EditResponse"
    /\ rlPage = "EditResponseGql" => Truthy(rlValue)
    /\ rlShown' = RelationDisplayValue(rlPage, rlMap[k], rlValue)
    /\ rlPc' = "shown"
    /\ UNCHANGED <<rlPage, rlFields, rlSchema, rlResponses, rlOther, rlValue,
                   rlMap, rlFetches, rlOthers>>

NextRelation ==
    \/ FetchRelated
    \/ \E k \in 1..Len(rlFields) : ShowRelationValue(k)

\* no page resolves relations
RelationParked ==
    /\ rlPage = "none"
    /\ rlFields = <<>>
    /\ rlSchema = <<>>
    /\ rlResponses = <<>>
    /\ rlOther = FALSE
    /\ rlValue = Undef
    /\ rlMap = <<>>
    /\ rlPc = "loading"
    /\ rlFetches = 0
    /\ rlShown = ""

-----------------------------------------------------------------------------
(* Form builder: FormGenerator / EditForm with FieldItem, and the save path *)
(* handleSaveToDatabase / handleSaveChanges -> createForm / updateForm ->   *)
(* processRelationFields                                                    *)

MaxFields == 2          \* the builder holds at most MaxFields fields
MaxClock == 2           \* Date.now() runs over 1..MaxClock

\* the form a relation can target: its id, title and first field
TargetForm == [id |-> "F", title |-> "Target", firstField |-> "name"]

\* relationConfig: undefined
NoConfig == [formId |-> "", formTitle |-> "", displayField |-> "",
             valueField |-> ""]

\* newField of addField
NewField(now) ==
    [id |-> "field_" \o ToString(now), type |-> "text", options |-> 0,
     relationConfig |-> NoConfig]

\* setForm(prev => ({...prev, fields: prev.fields.map(field =>
\*   field.id === id ? {...field, ...updates} : field)}))
\* with updates as a function from the keys it sets to their values
UpdateField(fields, id, updates) ==
    [k \in 1..Len(fields) |->
        IF fields[k].id = id
          THEN [key \in DOMAIN fields[k] |->
                   IF key \in DOMAIN updates THEN updates[key]
                   ELSE fields[k][key]]
          ELSE fields[k]]

\* fields.filter(field => field.id !== id)
RemoveField(fields, id) == SelectSeq(fields, LAMBDA f : f.id # id)

\* the updates of the Field Type select of FieldItem
TypeUpdates(field, type) ==
    LET clearConfig == field.type = "relation" /\ type # "relation"
        clearOptions == /\ field.type \in {"select", "radio"}
                        /\ type \notin {"select", "radio"}
    IN  [key \in {"type"} \cup (IF clearConfig THEN {"relationConfig"} ELSE {})
                          \cup (IF clearOptions THEN {"options"} ELSE {}) |->
            CASE key = "type" -> type
              [] key = "relationConfig" -> NoConfig
              [] key = "options" -> 0]

\* the relationConfig of FieldItem.handleRelationConfigChange(key, value)
RelationConfigChange(field, key, value) ==
    IF key = "formId"
      THEN [formId |-> value,
            formTitle |-> IF value = TargetForm.id /\ TargetForm.title # ""
                            THEN TargetForm.title ELSE "Untitled Form",
            displayField |-> "",
            valueField |-> value]
      ELSE [field.relationConfig EXCEPT ![key] = value]

\* JSON.stringify(form): the text that encodes the form
JsonStringify(title, fields) ==
    [t |-> "string", doc |-> [title |-> title, fields |-> fields]]

\* JSON.parse(text) of a text JSON.stringify produced
JsonParse(text) == text.doc

\* the field processRelationFields stores for a field, given allForms
ProcessRelationField(field, allForms) ==
    LET config == field.relationConfig
    IN  IF field.type = "relation" /\ config.formId # ""
          THEN IF config.formId \in allForms
                 THEN [field EXCEPT !.relationConfig =
                         [formId |-> config.formId,
                          formTitle |-> IF TargetForm.title # ""
                                          THEN TargetForm.title
                                          ELSE "Untitled Form",
                          displayField |->
                             IF config.displayField = ""
                               THEN TargetForm.firstField
                               ELSE config.displayField,
                          valueField |->
                             IF config.valueField = "" THEN "id"
                             ELSE config.valueField]]
                 ELSE [field EXCEPT
                         !.relationConfig.formTitle = "Form not found"]
          ELSE field

\* processRelationFields(formData): the schema text it returns
ProcessRelationFields(schema, allForms) ==
    LET form == JsonParse(schema)
    IN  JsonStringify(form.title,
                      [k \in 1..Len(form.fields) |->
                          ProcessRelationField(form.fields[k], allForms)])

\* the guards of handleSaveToDatabase / handleSaveChanges let the save go on
SaveAllowed_RadioUnchecked(title, fields) ==
    /\ Trim(title) # ""
    /\ Len(fields) # 0
    /\ \A k \in 1..Len(fields) :
          ~(fields[k].type = "select" /\ fields[k].options = 0)

SaveAllowed(title, fields) ==
    /\ Trim(title) # ""
    /\ Len(fields) # 0
    /\ \A k \in 1..Len(fields) :
          ~(fields[k].type \in {"select", "radio"} /\ fields[k].options = 0)

NoSent == [title |-> "", schema |-> [t |-> "none", doc |-> <<>>]]

InitBuilder ==
    /\ bdPage \in {"FormGenerator", "EditForm"}
    /\ bdTitle = "T"
    /\ bdFields = <<[id |-> "field_001", type |-> "text", options |-> 0,
                     relationConfig |-> NoConfig]>>
    /\ bdClock = 1
    /\ bdBackend \in SUBSET {TargetForm.id}
    /\ bdCache = {}
    /\ bdPc = "editing"
    /\ bdSent = NoSent

\* time passes
ClockTicks ==
    /\ bdClock < MaxClock
    /\ bdClock' = bdClock + 1
    /\ UNCHANGED <<bdPage, bdTitle, bdFields, bdBackend, bdCache, bdPc, bdSent,
                   bdOthers>>

\* addField
AddField ==
    /\ bdPc # "saving"
    /\ Len(bdFields) < MaxFields
    /\ bdFields' = Append(bdFields, NewField(bdClock))
    /\ bdPc' = "editing"
    /\ UNCHANGED <<bdPage, bdTitle, bdClock, bdBackend, bdCache, bdSent,
                   bdOthers>>

\* a control of the FieldItem of field k calls onUpdate(field.id, updates),
\* or its remove button calls onRemove(field.id)
EditField(k) ==
    LET field == bdFields[k]
        optionUpdates ==
            IF field.type \in {"select", "radio"}
              THEN {[key \in {"options"} |-> 1 - field.options]}
              ELSE {}
        configUpdates ==
            IF field.type = "relation"
              THEN {[key \in {"relationConfig"} |->
                       RelationConfigChange(field, "formId", id)] :
                          id \in bdCache}
                   \cup (IF field.relationConfig.formId = TargetForm.id
                           THEN {[key \in {"relationConfig"} |->
                                    RelationConfigChange(field, "displayField",
                                                         TargetForm.firstField)]}
                           ELSE {})
              ELSE {}
        typeUpdates ==
            {TypeUpdates(field, type) :
                type \in {"text", "select", "radio", "relation"} \ {field.type}}
    IN  /\ bdPc # "saving"
        /\ \/ \E updates \in typeUpdates \cup optionUpdates \cup configUpdates :
                 bdFields' = UpdateField(bdFields, field.id, updates)
           \/ bdFields' = RemoveField(bdFields, field.id)
        /\ bdPc' = "editing"
        /\ UNCHANGED <<bdPage, bdTitle, bdClock, bdBackend, bdCache, bdSent,
                       bdOthers>>

\* the title input
SetTitle(title) ==
    /\ bdPc # "saving"
    /\ bdTitle' = title
    /\ bdPc' = "editing"
    /\ UNCHANGED <<bdPage, bdFields, bdClock, bdBackend, bdCache, bdSent,
                   bdOthers>>

\* FieldItem.fetchForms of a relation field: graphqlService.getForms()
FetchForms ==
    /\ bdPc # "saving"
    /\ \E k \in 1..Len(bdFields) : bdFields[k].type = "relation"
    /\ bdCache' = bdBackend
    /\ UNCHANGED <<bdPage, bdTitle, bdFields, bdClock, bdBackend, bdPc, bdSent,
                   bdOthers>>

\* the target form is deleted by FormList (an Apollo mutation that does not
\* pass through graphqlService) or by another client
TargetDeleted ==
    /\ bdBackend # {}
    /\ bdBackend' = {}
    /\ UNCHANGED <<bdPage, bdTitle, bdFields, bdClock, bdCache, bdPc, bdSent,
                   bdOthers>>

\* handleSaveToDatabase / handleSaveChanges up to the mutation of createForm /
\* updateForm; getAllForms answers from a non-empty cache, else from the
\* backend, and with [] when that request fails
HandleSave ==
    /\ bdPc # "saving"
    /\ IF SaveAllowed(bdTitle, bdFields)
         THEN \E fetched \in {bdBackend, {}} :
                LET allForms == IF bdCache # {} THEN bdCache ELSE fetched
                IN  /\ bdCache' = IF bdCache # {} \/ fetched = {}
                                    THEN bdCache ELSE fetched
                    /\ bdSent' =
                         [title |-> bdTitle,
                          schema |-> ProcessRelationFields(
                                        JsonStringify(bdTitle, bdFields),
                                        allForms)]
                    /\ bdPc' = "saving"
         ELSE /\ bdPc' = "rejected"
              /\ UNCHANGED <<bdCache, bdSent>>
    /\ UNCHANGED <<bdPage, bdTitle, bdFields, bdClock, bdBackend, bdOthers>>

\* the mutation returns a record (the cache is dropped), or nothing, or throws
SaveReturns(stored) ==
    /\ bdPc = "saving"
    /\ bdPc' = "editing"
    /\ bdCache' = IF stored THEN {} ELSE bdCache
    /\ bdSent' = NoSent
    /\ UNCHANGED <<bdPage, bdTitle, bdFields, bdClock, bdBackend, bdOthers>>

NextBuilder ==
    \/ ClockTicks
    \/ AddField
    \/ \E k \in 1..Len(bdFields) : EditField(k)
    \/ \E title \in {" ", "T"} : SetTitle(title)
    \/ FetchForms
    \/ TargetDeleted
    \/ HandleSave
    \/ \E stored \in BOOLEAN : SaveReturns(stored)

\* no builder is open
BuilderParked ==
    /\ bdPage = "none"
    /\ bdTitle = ""
    /\ bdFields = <<>>
    /\ bdClock = 0
    /\ bdBackend = {}
    /\ bdCache = {}
    /\ bdPc = "editing"
    /\ bdSent = NoSent

-----------------------------------------------------------------------------
(* The readers of a stored schema: fetchForm of SubmitForm and of EditForm, *)
(* fetchData of ShowResponse                                                *)

\* the value of a key "fields": missing, null, a number, a string or a list
FieldsValue(t, list) == [t |-> t, list |-> list]

\* a JSON value: null, a number, an array, or an object with its "fields";
\* "bad" stands for a text that is not JSON
JsonDoc(kind, fields) == [kind |-> kind, fields |-> fields]

\* the stored schemas: every document as a native value and as its JSON
\* text, and a text that does not parse
StoredSchemas ==
    LET lists == UNION {[1..n -> {"a", "b"}] : n \in 0..MaxFields}
        values == {FieldsValue(t, <<>>) :
                      t \in {"absent", "null", "number", "string"}}
                  \cup {FieldsValue("list", l) : l \in lists}
        docs == {JsonDoc(kind, FieldsValue("absent", <<>>)) :
                    kind \in {"null", "number", "array"}}
                \cup {JsonDoc("object", v) : v \in values}
    IN  {[t |-> t, doc |-> d] : t \in {"object", "string"}, d \in docs}
        \cup {[t |-> "string", doc |-> JsonDoc("bad", FieldsValue("absent", <<>>))]}

\* the reader, from `let schema = form.schema` to the first use of the
\* fields it set: [fields, state, toast]
ReadSchema(reader, stored) ==
    LET threw == stored.t = "string" /\ stored.doc.kind = "bad"
        schema == IF stored.t = "string" THEN JsonParse(stored) ELSE stored.doc
        isObject == schema.kind \in {"object", "array"}
        hasFields == schema.fields.t # "absent"
        fieldsOrEmpty == IF schema.fields.t \in {"absent", "null"}
                           THEN FieldsValue("list", <<>>) ELSE schema.fields
        parsed == IF ~threw /\ isObject /\ (reader = "EditForm" \/ hasFields)
                    THEN fieldsOrEmpty ELSE FieldsValue("list", <<>>)
    IN  [fields |-> parsed,
         state  |-> IF parsed.t = "list" THEN "loaded"
                    ELSE IF reader = "EditForm" THEN "renderThrows"
                    ELSE "formNotFound",
         toast  |-> \/ threw /\ reader # "EditForm"
                    \/ parsed.t # "list" /\ reader # "EditForm"]

InitReader ==
    /\ rdReader \in {"SubmitForm", "EditForm", "ShowResponse"}
    /\ rdStored \in StoredSchemas
    /\ rdPc = "reading"
    /\ rdResult = [fields |-> FieldsValue("list", <<>>), state |-> "loading",
                   toast |-> FALSE]

\* the page reads the schema of the form it fetched
ReaderReturns ==
    /\ rdPc = "reading"
    /\ rdResult' = ReadSchema(rdReader, rdStored)
    /\ rdPc' = "done"
    /\ UNCHANGED <<rdReader, rdStored, rdOthers>>

NextReader == ReaderReturns

\* no page reads a schema
ReaderParked ==
    /\ rdReader = "none"
    /\ rdStored = [t |-> "none", doc |-> <<>>]
    /\ rdPc = "reading"
    /\ rdResult = [fields |-> FieldsValue("list", <<>>), state |-> "loading",
                   toast |-> FALSE]

-----------------------------------------------------------------------------
(* A page load whose relation fetches may fail: fetchData / fetchFormDetails *)
(* with fetchRelatedFormData, fetchRelatedResponses or fetchRelationOptions *)

\* how the fetches for one relation field end: both succeed, the fetch of
\* the target's responses fails, the fetch of the target form fails, or the
\* target's stored schema is not JSON
FetchOutcomes == {"ok", "responsesFail", "formFail", "badJson"}

\* the body of the resolver's try block throws for the field: a failed
\* getFormResponses throws in both services; a failed getFormById throws in
\* graphqlService, and is null in supabaseService (EditResponse does not
\* fetch the form); a schema that does not parse is caught where it is parsed
FieldThrows(page, outcome) ==
    \/ outcome = "responsesFail"
    \/ outcome = "formFail" /\ page = "EditResponseGql"

\* where the resolver's try block sits: around the whole loop in
\* ShowResponse, around each field's fetches in the other pages
TryScope(page) == IF page = "ShowResponse" THEN "loop" ELSE "field"

\* the catch block of the page's own fetch: ShowResponse and EditResponse
\* set formNotFound, the other two show a toast or navigate away
PageCatch(page, view) ==
    [view EXCEPT !.notFound = page \in {"ShowResponse", "EditResponse"}]

\* the loading flags after the resolver's finally block ran for field k
FlagsAfterFinally_OnSuccessOnly(page, flags, k, threw) ==
    IF threw THEN flags
    ELSE IF page = "ShowResponse" THEN {} ELSE flags \ {k}

FlagsAfterFinally(page, flags, k, threw) ==
    IF page = "ShowResponse" THEN {} ELSE flags \ {k}

InitResolve ==
    /\ rfPage \in {"ShowResponse", "ResponsesIndex", "EditResponse",
                  "EditResponseGql"}
    /\ rfOutcomes \in UNION {[1..n -> FetchOutcomes] : n \in 0..MaxFields}
    /\ rfPc = "fetching"
    /\ rfNext = 1
    /\ rfLoading = TRUE
    /\ rfFlags = {}
    /\ rfResolved = {}
    /\ rfView = [notFound |-> FALSE, data |-> FALSE]

\* the form and the response arrived: their values are set and the resolver
\* is called with the relation fields
BeginResolve ==
    /\ rfPc = "fetching"
    /\ rfView' = [rfView EXCEPT !.data = TRUE]
    /\ rfPc' = IF Len(rfOutcomes) = 0 THEN "finishing" ELSE "resolving"
    /\ UNCHANGED <<rfPage, rfOutcomes, rfNext, rfLoading, rfFlags, rfResolved,
                   rfOthers>>

\* the resolver sets the loading flag and awaits the fetches of field rfNext
StartField ==
    /\ rfPc = "resolving"
    /\ rfFlags' = IF rfPage = "ShowResponse" THEN {0}
                  ELSE rfFlags \cup {rfNext}
    /\ rfPc' = "awaiting"
    /\ UNCHANGED <<rfPage, rfOutcomes, rfNext, rfLoading, rfResolved, rfView,
                   rfOthers>>

\* the page's own fetch of the form or the response fails: its catch block
\* runs and the resolver is never called
PageFetchFails ==
    /\ rfPc = "fetching"
    /\ rfView' = PageCatch(rfPage, rfView)
    /\ rfPc' = "finishing"
    /\ UNCHANGED <<rfPage, rfOutcomes, rfNext, rfLoading, rfFlags, rfResolved,
                   rfOthers>>

\* the fetches of field rfNext settle.  ShowResponse has one try block around
\* the loop and sets relatedFormData after it; the other pages have one try
\* block per field and set the field's data inside it.  An error outside
\* every try block of the resolver reaches the catch block of the page.
FieldSettles ==
    LET threw == FieldThrows(rfPage, rfOutcomes[rfNext])
        scope == TryScope(rfPage)
        escapes == threw /\ scope \notin {"loop", "field"}
        last == rfNext = Len(rfOutcomes)
        leaves == last \/ (threw /\ scope # "field")
    IN  /\ rfPc = "awaiting"
        /\ rfView' = IF escapes THEN PageCatch(rfPage, rfView) ELSE rfView
        /\ rfResolved' =
              IF rfPage = "ShowResponse"
                THEN (IF last /\ ~threw THEN 1..Len(rfOutcomes) ELSE {})
                ELSE (IF threw THEN rfResolved ELSE rfResolved \cup {rfNext})
        /\ rfFlags' = IF escapes \/ (scope = "loop" /\ ~leaves) THEN rfFlags
                      ELSE FlagsAfterFinally(rfPage, rfFlags, rfNext, threw)
        /\ rfNext' = IF leaves THEN rfNext ELSE rfNext + 1
        /\ rfPc' = IF leaves THEN "finishing"
                   ELSE IF rfPage = "ShowResponse" THEN "awaiting"
                   ELSE "resolving"
        /\ UNCHANGED <<rfPage, rfOutcomes, rfLoading, rfOthers>>

\* the resolver returned: the finally block of the page's fetch
FinishLoad ==
    /\ rfPc = "finishing"
    /\ rfLoading' = FALSE
    /\ rfPc' = "done"
    /\ UNCHANGED <<rfPage, rfOutcomes, rfNext, rfFlags, rfResolved, rfView,
                   rfOthers>>

NextResolve ==
    BeginResolve \/ PageFetchFails \/ StartField \/ FieldSettles \/ FinishLoad

\* no page load is under way
ResolveParked ==
    /\ rfPage = "none"
    /\ rfOutcomes = <<>>
    /\ rfPc = "done"
    /\ rfNext = 1
    /\ rfLoading = FALSE
    /\ rfFlags = {}
    /\ rfResolved = {}
    /\ rfView = [notFound |-> FALSE, data |-> FALSE]

-----------------------------------------------------------------------------
(* The CRUD facade: supabaseService, graphqlService, the useForms hook and  *)
(* the lookups of ShowResponse.fetchData                                    *)

MaxNumericIds == 2      \* how many form ids read as a number

\* the ids a caller passes: one that is not a number, the others numbers
StoredFormIds == {"ab"} \cup {ToString(6 + k) : k \in 1..MaxNumericIds}
DeletePaths == {"supabaseService", "graphqlService", "useForms"}

\* Number(s) for a string of decimal digits
RECURSIVE DecimalValue(_)
DecimalValue(s) ==
    IF Len(s) = 0 THEN 0
    ELSE 10 * DecimalValue(SubSeq(s, 1, Len(s) - 1))
         + (CHOOSE d \in 0..9 : ToString(d) = CharAt(s, Len(s)))

\* no call was made yet
NoFacadeCall ==
    [op |-> "none", path |-> "none", id |-> "", failed |-> FALSE,
     missing |-> FALSE, requests |-> 0, outcome |-> "none",
     returned |-> "none"]

\* what one call gave its caller
CallResult(op, path, id, failed, missing, requests, outcome, returned) ==
    [op |-> op, path |-> path, id |-> id, failed |-> failed,
     missing |-> missing, requests |-> requests, outcome |-> outcome,
     returned |-> returned]

\* supabaseService.getFormById / getResponseById: .single() reports an error
\* when the request fails and when no row matches; either way the error is
\* logged and null is returned
SingleRow(id, failed) ==
    IF failed \/ id \notin fcForms THEN "null" ELSE "row"

\* deleteForm raises: supabaseService throws the error of the request,
\* graphqlService.mutate rethrows it, the hook rethrows what graphqlService
\* threw; a delete that matched no row is no error
DeleteRaises_MissingRow(path, failed, exists) == failed \/ ~exists

DeleteRaises(path, failed, exists) == failed

\* what deleteForm returns when it does not raise
DeleteReturns(path, exists) ==
    CASE path = "supabaseService" -> "undefined"
      [] path = "graphqlService"  -> (IF exists THEN "record" ELSE "null")
      [] path = "useForms"        -> "true"

InitFacade ==
    /\ fcForms \in SUBSET StoredFormIds
    /\ fcList = {}
    /\ fcResult = NoFacadeCall

\* supabaseService.getFormById(id), the backend request failing or not
GetFormById(id, failed) ==
    /\ fcResult' = CallResult("getFormById", "supabaseService", id, failed,
                              id \notin fcForms, 1, "returned",
                              SingleRow(id, failed))
    /\ UNCHANGED <<fcForms, fcList, fcOthers>>

\* the form lookup of ShowResponse.fetchData: a null result for an id that
\* reads as a number is looked up again with Number(id)
FetchData(id, failed, failedAgain) ==
    LET first == SingleRow(id, failed)
        again == first = "null" /\ ~IsNaNNumber(id)
        form == IF again THEN SingleRow(ToStr(Num(DecimalValue(id))),
                                        failedAgain)
                ELSE first
    IN  /\ fcResult' = CallResult("fetchData", "ShowResponse", id,
                                  failed \/ (again /\ failedAgain),
                                  id \notin fcForms,
                                  IF again THEN 2 ELSE 1,
                                  IF form = "null" THEN "formNotFound"
                                  ELSE "loaded",
                                  form)
        /\ UNCHANGED <<fcForms, fcList, fcOthers>>

\* useForms.fetchForms: the list is replaced by the stored forms
FetchFormList(failed) ==
    /\ fcList' = IF failed THEN fcList ELSE fcForms
    /\ fcResult' = CallResult("fetchForms", "useForms", "", failed, FALSE, 1,
                              IF failed THEN "raised" ELSE "returned",
                              IF failed THEN "none" ELSE "list")
    /\ UNCHANGED <<fcForms, fcOthers>>

\* deleteForm(id) through one of the three paths
DeleteForm(path, id, failed) ==
    LET exists == id \in fcForms
        raises == DeleteRaises(path, failed, exists)
    IN  /\ fcForms' = IF failed THEN fcForms ELSE fcForms \ {id}
        /\ fcList' = IF path = "useForms" /\ ~raises THEN fcList \ {id}
                     ELSE fcList
        /\ fcResult' = CallResult("deleteForm", path, id, failed, ~exists, 1,
                                  IF raises THEN "raised" ELSE "returned",
                                  IF raises THEN "none"
                                  ELSE DeleteReturns(path, exists))
        /\ UNCHANGED fcOthers

NextFacade ==
    \/ \E id \in StoredFormIds, failed \in BOOLEAN : GetFormById(id, failed)
    \/ \E id \in StoredFormIds, failed \in BOOLEAN, failedAgain \in BOOLEAN :
          FetchData(id, failed, failedAgain)
    \/ \E failed \in BOOLEAN : FetchFormList(failed)
    \/ \E path \in DeletePaths, id \in StoredFormIds, failed \in BOOLEAN :
          DeleteForm(path, id, failed)

\* no call was made
FacadeParked ==
    /\ fcForms = {}
    /\ fcList = {}
    /\ fcResult = NoFacadeCall

-----------------------------------------------------------------------------
(* The singleton GraphQLService: formsCache under calls that overlap        *)

MaxCallers == 2         \* how many callers await a call at the same time

ServiceFormIds == {"F", "G"}
Callers == 1..MaxCallers

\* no call is awaited
IdleCall ==
    [op |-> "none", id |-> "", pc |-> "idle", snapshot |-> {},
     failed |-> FALSE, record |-> FALSE]

InitService ==
    /\ gsBackend \in SUBSET ServiceFormIds
    /\ gsCache = {}
    /\ gsCalls = [c \in Callers |-> IdleCall]

\* getForms() sends its query
IssueGetForms(c) ==
    /\ gsCalls[c].pc = "idle"
    /\ gsCalls' = [gsCalls EXCEPT ![c] = [IdleCall EXCEPT !.op = "getForms",
                                                          !.pc = "query"]]
    /\ UNCHANGED <<gsBackend, gsCache, gsOthers>>

\* createForm / updateForm / deleteForm(id) is called (the form a createForm
\* adds gets an id no stored form has).  createForm and
\* updateForm first await processRelationFields, whose getAllForms sends the
\* getForms query unless formsCache has an entry; deleteForm sends its
\* mutation at once.
IssueMutation(c, op, id) ==
    /\ gsCalls[c].pc = "idle"
    /\ op = "createForm" => id \notin gsBackend
    /\ gsCalls' = [gsCalls EXCEPT ![c] =
                     [IdleCall EXCEPT
                        !.op = op, !.id = id,
                        !.pc = IF op = "deleteForm" \/ gsCache # {}
                                 THEN "mutation" ELSE "query"]]
    /\ UNCHANGED <<gsBackend, gsCache, gsOthers>>

\* the backend serves the request that call c has sent, or the request fails
BackendServes(c, failed) ==
    LET call == gsCalls[c]
        applies == call.pc = "mutation" /\ ~failed
    IN  /\ call.pc \in {"query", "mutation"}
        /\ gsBackend' =
             IF applies /\ call.op = "deleteForm" THEN gsBackend \ {call.id}
             ELSE IF applies /\ call.op = "createForm"
               THEN gsBackend \cup {call.id}
             ELSE gsBackend
        /\ gsCalls' = [gsCalls EXCEPT ![c] =
                         [call EXCEPT
                            !.pc = IF call.pc = "query" THEN "queryDone"
                                   ELSE "mutationDone",
                            !.snapshot = IF failed THEN {} ELSE gsBackend,
                            !.failed = failed,
                            !.record = applies /\ (call.op = "createForm"
                                                   \/ call.id \in gsBackend)]]
        /\ UNCHANGED <<gsCache, gsOthers>>

\* formsCache after the code behind the await of a mutation ran
CacheAfterMutation_Kept(call, cache) == cache

CacheAfterMutation(call, cache) ==
    IF call.failed THEN cache
    ELSE IF call.op = "deleteForm" \/ call.record THEN {}
    ELSE cache

\* the awaited request of call c settled and the code behind the await runs:
\* getForms stores the list in formsCache; getAllForms does the same and
\* answers [] on an error, after which the mutation is sent; a mutation that
\* returned a record (deleteForm: that returned) empties formsCache
CallResumes(c) ==
    LET call == gsCalls[c]
    IN  /\ call.pc \in {"queryDone", "mutationDone"}
        /\ gsCache' =
             IF call.pc = "queryDone"
               THEN (IF call.failed THEN gsCache ELSE call.snapshot)
               ELSE CacheAfterMutation(call, gsCache)
        /\ gsCalls' = [gsCalls EXCEPT ![c] =
                         IF call.pc = "queryDone" /\ call.op # "getForms"
                           THEN [call EXCEPT !.pc = "mutation",
                                             !.failed = FALSE]
                           ELSE IdleCall]
        /\ UNCHANGED <<gsBackend, gsOthers>>

NextService ==
    \/ \E c \in Callers : IssueGetForms(c)
    \/ \E c \in Callers, id \in ServiceFormIds,
          op \in {"createForm", "updateForm", "deleteForm"} :
          IssueMutation(c, op, id)
    \/ \E c \in Callers, failed \in BOOLEAN : BackendServes(c, failed)
    \/ \E c \in Callers : CallResumes(c)

\* no call was made
ServiceParked ==
    /\ gsBackend = {}
    /\ gsCache = {}
    /\ gsCalls = <<>>

-----------------------------------------------------------------------------
(* The list of ResponsesIndex: fetchResponses calls in flight, the          *)
(* pagination controls and handleDeleteConfirm                              *)

MaxStored == 11         \* how many responses the form has at the start
MaxInFlight == 2        \* how many fetchResponses calls are awaited at once
MaxDeletes == 1         \* how many responses the user deletes

\* the filter settings: none, or one that only response 1 satisfies
ListFilters == {"", "a"}

\* the page sizes chosen: 10, and 25 for the sizes that hold every response
ListPageSizes == {10, 25}

\* no response is picked for deletion
NoResponse == 0

\* what the backend returns for the parameters of a request: the rows of the
\* page, newest (highest id) first, and the count of all matching rows
FetchResult(stored, params) ==
    LET matching == IF params.filter = "" THEN stored ELSE stored \cap {1}
        rank(id) == Cardinality({j \in matching : j > id})
    IN  [responses |->
            {id \in matching :
                /\ rank(id) >= RangeFrom(params.page, params.pageSize)
                /\ rank(id) <= RangeTo(params.page, params.pageSize)},
         total |-> Cardinality(matching)]

\* the state change fired the effect: fetchResponses sets loading and awaits
\* getFormResponsesWithFilters with the new parameters
IssueFetch(params) ==
    /\ Cardinality(rpFetches) < MaxInFlight
    /\ rpParams' = params
    /\ rpFetches' = {[r EXCEPT !.latest = FALSE] : r \in rpFetches}
                    \cup {[params |-> params, latest |-> TRUE]}
    /\ rpView' = [rpView EXCEPT !.loading = TRUE]
    /\ rpLatest' = [state |-> "pending", responses |-> {}, total |-> 0]

\* the page after fetchFormDetails: the effect has issued the first
\* fetchResponses
InitList ==
    /\ rpStored = 1..MaxStored
    /\ rpParams = [page |-> 1, pageSize |-> 10, filter |-> ""]
    /\ rpFetches = {[params |-> rpParams, latest |-> TRUE]}
    /\ rpView = [responses |-> {}, totalCount |-> 0, loading |-> TRUE]
    /\ rpLatest = [state |-> "pending", responses |-> {}, total |-> 0]
    /\ rpDelete = [toDelete |-> NoResponse, dialogOpen |-> FALSE,
                   deleting |-> NoResponse, deletes |-> 0]

\* handleFilterChange, clearFilters or the search input: the page is reset
ChangeFilter(filter) ==
    /\ IssueFetch([rpParams EXCEPT !.filter = filter, !.page = 1])
    /\ UNCHANGED <<rpStored, rpDelete, rpOthers>>

\* the rows-per-page select, shown while totalCount > 0
ChangePageSize(size) ==
    /\ rpView.totalCount > 0
    /\ size # rpParams.pageSize
    /\ IssueFetch([rpParams EXCEPT !.pageSize = size, !.page = 1])
    /\ UNCHANGED <<rpStored, rpDelete, rpOthers>>

\* the page a pagination button sets
PageAfter(button, page, totalCount, pageSize) ==
    LET totalPages == MathCeilDiv(totalCount, pageSize)
    IN  CASE button = "first" -> 1
          [] button = "previous" -> IF page - 1 > 1 THEN page - 1 ELSE 1
          [] button = "next" ->
               IF page + 1 < totalPages THEN page + 1 ELSE totalPages
          [] button = "last" -> totalPages

\* a pagination button that is not disabled is clicked
GoToPage(button) ==
    LET totalPages == MathCeilDiv(rpView.totalCount, rpParams.pageSize)
        disabled == IF button \in {"first", "previous"}
                      THEN rpParams.page = 1
                      ELSE rpParams.page >= totalPages
    IN  /\ rpView.totalCount > 0
        /\ ~disabled
        /\ IssueFetch([rpParams EXCEPT !.page =
                          PageAfter(button, rpParams.page, rpView.totalCount,
                                    rpParams.pageSize)])
        /\ UNCHANGED <<rpStored, rpDelete, rpOthers>>

\* the request of one fetchResponses call settles and the code behind its
\* await runs: setResponses / setTotalCount, or the catch block, and finally
\* setLoading(false)
FetchSettles(latest, failed) ==
    \E request \in {r \in rpFetches : r.latest = latest} :
    LET result == IF failed THEN [responses |-> {}, total |-> 0]
                  ELSE FetchResult(rpStored, request.params)
    IN  /\ rpFetches' = rpFetches \ {request}
        /\ rpView' = [responses |-> result.responses,
                      totalCount |-> result.total,
                      loading |-> FALSE]
        /\ rpLatest' = IF request.latest
                         THEN [state |-> "returned",
                               responses |-> result.responses,
                               total |-> result.total]
                         ELSE rpLatest
        /\ UNCHANGED <<rpStored, rpParams, rpDelete, rpOthers>>

\* the delete button of a displayed row (the first or the last one):
\* setResponseToDelete(response), and the effect that opens the dialog
PickResponse(id) ==
    /\ id \in rpView.responses
    /\ \/ \A j \in rpView.responses : j <= id
       \/ \A j \in rpView.responses : j >= id
    /\ rpDelete.deleting = NoResponse
    /\ rpDelete.toDelete # id
    /\ rpDelete' = [rpDelete EXCEPT !.toDelete = id, !.dialogOpen = TRUE]
    /\ UNCHANGED <<rpStored, rpParams, rpFetches, rpView, rpLatest, rpOthers>>

\* handleDeleteConfirm up to its await: nothing without a picked response
HandleDeleteConfirm ==
    /\ rpDelete.deleting = NoResponse
    /\ rpDelete.deletes < MaxDeletes
    /\ rpDelete' = IF rpDelete.toDelete = NoResponse THEN rpDelete
                   ELSE [rpDelete EXCEPT !.deleting = rpDelete.toDelete,
                                         !.deletes = @ + 1]
    /\ UNCHANGED <<rpStored, rpParams, rpFetches, rpView, rpLatest, rpOthers>>

\* responses and totalCount after the code behind the await of
\* deleteResponse ran
ViewAfterDelete_CountKept(view, id, failed) ==
    IF failed THEN view
    ELSE [view EXCEPT !.responses = @ \ {id}]

ViewAfterDelete(view, id, failed) ==
    IF failed THEN view
    ELSE [view EXCEPT !.responses = @ \ {id}, !.totalCount = @ - 1]

\* deleteResponse settles: the local state is updated on success, the error
\* is caught on failure, and finally the dialog is closed
DeleteSettles(failed) ==
    /\ rpDelete.deleting # NoResponse
    /\ rpStored' = IF failed THEN rpStored ELSE rpStored \ {rpDelete.deleting}
    /\ rpView' = ViewAfterDelete(rpView, rpDelete.deleting, failed)
    /\ rpDelete' = [rpDelete EXCEPT !.toDelete = NoResponse,
                                    !.dialogOpen = FALSE,
                                    !.deleting = NoResponse]
    /\ UNCHANGED <<rpParams, rpFetches, rpLatest, rpOthers>>

NextList ==
    \/ \E filter \in ListFilters : ChangeFilter(filter)
    \/ \E size \in ListPageSizes : ChangePageSize(size)
    \/ \E button \in {"first", "previous", "next", "last"} : GoToPage(button)
    \/ \E latest \in BOOLEAN, failed \in BOOLEAN :
          FetchSettles(latest, failed)
    \/ \E id \in 1..MaxStored : PickResponse(id)
    \/ HandleDeleteConfirm
    \/ \E failed \in BOOLEAN : DeleteSettles(failed)

\* the page is not mounted
ListParked ==
    /\ rpStored = {}
    /\ rpParams = [page |-> 1, pageSize |-> 10, filter |-> ""]
    /\ rpFetches = {}
    /\ rpView = [responses |-> {}, totalCount |-> 0, loading |-> FALSE]
    /\ rpLatest = [state |-> "pending", responses |-> {}, total |-> 0]
    /\ rpDelete = [toDelete |-> NoResponse, dialogOpen |-> FALSE,
                   deleting |-> NoResponse, deletes |-> 0]

-----------------------------------------------------------------------------
(* Specifications: one per component; the other components stay parked      *)

\* every component but the named one is at rest
ParkedExcept(component) ==
    /\ IF component = "svc" THEN TRUE ELSE SvcIdle
    /\ IF component = "ri" THEN TRUE ELSE IndexParked
    /\ IF component = "vf" THEN TRUE ELSE FormParked
    /\ IF component = "ld" THEN TRUE ELSE LoadParked
    /\ IF component = "rl" THEN TRUE ELSE RelationParked
    /\ IF component = "bd" THEN TRUE ELSE BuilderParked
    /\ IF component = "rd" THEN TRUE ELSE ReaderParked
    /\ IF component = "rf" THEN TRUE ELSE ResolveParked
    /\ IF component = "fc" THEN TRUE ELSE FacadeParked
    /\ IF component = "gs" THEN TRUE ELSE ServiceParked
    /\ IF component = "rp" THEN TRUE ELSE ListParked

InitFilter == SvcIdle /\ ParkedExcept("svc")
SpecFilter == InitFilter /\ [][NextFilter]_vars

StartIndex == InitIndex /\ SvcIdle /\ ParkedExcept("ri")
SpecIndex == StartIndex /\ [][NextIndex]_vars

StartValidate == InitValidate /\ ParkedExcept("vf")
SpecValidate == StartValidate /\ [][NextValidate]_vars

StartSubmit == InitSubmit /\ ParkedExcept("vf")
SpecSubmit == StartSubmit /\ [][NextSubmit]_vars

StartLoad == InitLoad /\ ParkedExcept("ld")
SpecLoad == StartLoad /\ [][NextLoad]_vars

StartRelation == InitRelation /\ ParkedExcept("rl")
SpecRelation == StartRelation /\ [][NextRelation]_vars

StartBuilder == InitBuilder /\ ParkedExcept("bd")
SpecBuilder == StartBuilder /\ [][NextBuilder]_vars

StartReader == InitReader /\ ParkedExcept("rd")
SpecReader == StartReader /\ [][NextReader]_vars

\* every step of the load is the continuation of a request that settles
StartResolve == InitResolve /\ ParkedExcept("rf")
SpecResolve == StartResolve /\ [][NextResolve]_vars /\ WF_vars(NextResolve)

StartFacade == InitFacade /\ ParkedExcept("fc")
SpecFacade == StartFacade /\ [][NextFacade]_vars

StartService == InitService /\ ParkedExcept("gs")
SpecService == StartService /\ [][NextService]_vars

StartList == InitList /\ ParkedExcept("rp")
SpecList == StartList /\ [][NextList]_vars

-----------------------------------------------------------------------------
(* Properties of the filter / query builder                                 *)

\* the skip rule as the specification words it
SkippedByRule(filter) ==
    \/ filter.value \in {Str(""), Null, Undef}
    \/ (filter.value = Bool(FALSE) /\ filter.operator # "isFalse")

\* the constraints of the built query that address field fieldName
ConstraintsOn(fieldName) ==
    SelectSeq(svcQuery.constraints, LAMBDA c : c.path.field = fieldName)

EntriesOfCall == {svcCall.entries[i] : i \in 1..Len(svcCall.entries)}

\* the addressing the table of operators prescribes
TableArrow(filter) ==
    IF \/ filter.operator \in {"contains", "startsWith", "endsWith"}
       \/ (filter.operator = "equals" /\ filter.value.t = "string")
      THEN "->>" ELSE "->"

\* C1: in both builders, every constraint a non-skipped filter adds addresses
\* its field by text extraction (data->>field) exactly when the operator is
\* contains, startsWith or endsWith, or is equals with a string value, and as
\* native JSON (data->field) in every other case.
C1_TextAddressingIff ==
    svcPc = "awaiting" =>
        \A e \in EntriesOfCall :
            ~SkippedByRule(e.filter) =>
                \A i \in 1..Len(ConstraintsOn(e.fieldName)) :
                    LET c == ConstraintsOn(e.fieldName)[i]
                    IN  /\ c.path.column = "data"
                        /\ c.path.arrow = TableArrow(e.filter)

\* a call in flight whose query holds a text-addressed equals (string value)
\* and a native-addressed equals (number value)
C1_Witness ==
    /\ svcPc = "awaiting"
    /\ Len(svcCall.entries) = 2
    /\ svcCall.entries[1].filter = [operator |-> "equals", value |-> Str("a")]
    /\ svcCall.entries[2].filter = [operator |-> "equals", value |-> Num(5)]
    /\ Len(svcQuery.constraints) = 2
    /\ svcQuery.constraints[1].path.arrow = "->>"
    /\ svcQuery.constraints[2].path.arrow = "->"

\* the comparison the table of operators prescribes for a filter
TableComparison(fieldName, filter) ==
    LET path == [column |-> "data", arrow |-> TableArrow(filter),
                 field |-> fieldName]
        v == filter.value
        op == filter.operator
    IN  CASE op = "contains"   -> Constraint(path, "ilike", Str("%" \o ToStr(v) \o "%"))
          [] op = "startsWith" -> Constraint(path, "ilike", Str(ToStr(v) \o "%"))
          [] op = "endsWith"   -> Constraint(path, "ilike", Str("%" \o ToStr(v)))
          [] op = "equals"     -> Constraint(path, "eq", v)
          [] op = "isTrue"     -> Constraint(path, "eq", Bool(TRUE))
          [] op = "isFalse"    -> Constraint(path, "eq", Bool(FALSE))
          [] op = "greaterThan"        -> Constraint(path, "gt", v)
          [] op = "lessThan"           -> Constraint(path, "lt", v)
          [] op = "greaterThanOrEqual" -> Constraint(path, "gte", v)
          [] op = "lessThanOrEqual"    -> Constraint(path, "lte", v)

\* C2: for every operator of the table and every non-skipped value the
\* builder adds exactly one constraint on the field, with the comparison of
\* the table, and the two services build the same constraints.
C2_OneConstraintPerOperator ==
    svcPc = "awaiting" =>
        /\ \A e \in EntriesOfCall :
              ~SkippedByRule(e.filter) /\ e.filter.value # Bool(FALSE) =>
                  ConstraintsOn(e.fieldName)
                      = <<TableComparison(e.fieldName, e.filter)>>
        /\ ApplyFilters("supabase", svcCall.entries)
              = ApplyFilters("graphql", svcCall.entries)

\* C3: a filter whose value is '', null or undefined, or false with an
\* operator other than isFalse, adds no constraint on its field, while the
\* form_id equality, the descending created_at order and the pagination
\* range are still part of the query.
C3_SkippedFilterAddsNothing ==
    svcPc = "awaiting" =>
        /\ \A e \in EntriesOfCall :
              SkippedByRule(e.filter) => ConstraintsOn(e.fieldName) = <<>>
        /\ svcQuery.table = "responses"
        /\ svcQuery.formIdEq = svcCall.formId
        /\ svcQuery.orderBy = "created_at" /\ svcQuery.ascending = FALSE
        /\ svcQuery.from = (svcCall.page - 1) * svcCall.pageSize
        /\ svcQuery.to - svcQuery.from + 1 = svcCall.pageSize

\* a call in flight with one skipped filter (null) beside an applied one
C3_Witness ==
    /\ svcPc = "awaiting"
    /\ Len(svcCall.entries) = 2
    /\ svcCall.entries[1].filter = [operator |-> "equals", value |-> Null]
    /\ svcCall.entries[2].filter = [operator |-> "contains", value |-> Str("a")]
    /\ Len(svcQuery.constraints) = 1
    /\ svcQuery.constraints[1].path.field = svcCall.entries[2].fieldName
    /\ svcQuery.formIdEq = svcCall.formId

\* n = ceil(total / pageSize), stated without division
IsCeilOf(n, total, pageSize) ==
    /\ n >= 0
    /\ n * pageSize >= total
    /\ (n - 1) * pageSize < total

C5_RangeOfCall ==
    svcPc = "awaiting" =>
        /\ svcQuery.from = (svcCall.page - 1) * svcCall.pageSize
        /\ svcQuery.to = svcQuery.from + svcCall.pageSize - 1
        /\ svcQuery.to + 1 = svcCall.page * svcCall.pageSize
        /\ (svcCall.page = 3 /\ svcCall.pageSize = 10
               => svcQuery.from = 20 /\ svcQuery.to = 29)

C5_ResultOfCall ==
    svcPc = "awaiting" /\ svcPc' = "returned" =>
        /\ svcResult'.page = svcCall.page
        /\ svcResult'.pageSize = svcCall.pageSize
        /\ svcResult'.total >= 0
        /\ IsCeilOf(svcResult'.totalPages, svcResult'.total, svcCall.pageSize)
        /\ (svcResult'.total = 0 => svcResult'.totalPages = 0)
        /\ (svcResult'.total = 25 /\ svcCall.pageSize = 10
               => svcResult'.totalPages = 3)

\* C5: the call requests the inclusive range from = (page-1)*pageSize,
\* to = from+pageSize-1 (page p+1 starts right after page p ends) and returns
\* page and pageSize unchanged with totalPages = ceil(total/pageSize):
\* 0 for total 0, 3 for total 25 and pageSize 10, [20,29] for page 3 of 10.
C5_Pagination == [] C5_RangeOfCall /\ [][C5_ResultOfCall]_vars

\* the call for page 3 of size 10 has returned, the backend having counted 25
C5_Witness ==
    /\ svcPc = "returned"
    /\ svcResult = [total |-> 25, page |-> 3, pageSize |-> 10, totalPages |-> 3]

-----------------------------------------------------------------------------
(* Properties of the response browser                                       *)

\* C4: when a checkbox field's filter is set to "No" (filter value "false"),
\* the query that fetchResponses issues holds the constraint
\* data->field eq false for that field.
C4_IsFalseFilterIsQueried ==
    \A k \in 1..Len(riFields) :
        riFields[k] = "checkbox" /\ riFilters[k] = "false" =>
            \E i \in 1..Len(riQuery.constraints) :
                riQuery.constraints[i] =
                    Constraint([column |-> "data", arrow |-> "->",
                                field |-> IndexFieldIds[k]],
                               "eq", Bool(FALSE))

-----------------------------------------------------------------------------
(* Properties of the form validator                                         *)

\* s is empty or holds blanks only
AllBlank(s) == \A i \in 1..Len(s) : SubSeq(s, i, i) = " "

\* s reads local@domain.tld: one "@", no blank, a non-empty local part, and
\* a domain with a "." that has something before and after it
ReadsAsEmail(s) ==
    LET n == Len(s)
        ats == {i \in 1..n : SubSeq(s, i, i) = "@"}
    IN  /\ Cardinality(ats) = 1
        /\ \A i \in 1..n : SubSeq(s, i, i) # " "
        /\ \A at \in ats :
              /\ at > 1
              /\ \E dot \in (at + 2)..(n - 1) : SubSeq(s, dot, dot) = "."

\* s, blanks around it aside, is a decimal numeral (or nothing, read as 0)
ReadsAsNumber(s) ==
    \E lead \in 0..Len(s), trail \in 0..Len(s) :
        /\ lead + trail <= Len(s)
        /\ AllBlank(SubSeq(s, 1, lead))
        /\ AllBlank(SubSeq(s, Len(s) - trail + 1, Len(s)))
        /\ LET core == SubSeq(s, lead + 1, Len(s) - trail)
               m == Len(core)
           IN  \/ m = 0
               \/ /\ \A i \in 1..m : SubSeq(core, i, i) \in Digits \cup {"."}
                  /\ \E i \in 1..m : SubSeq(core, i, i) \in Digits
                  /\ \A i, j \in 1..m :
                        SubSeq(core, i, i) = "." /\ SubSeq(core, j, j) = "."
                            => i = j

\* the three rules of the Form Validator, for a field and its value
RequiredRuleBroken(field, value) ==
    /\ field.required
    /\ IF field.type = "checkbox" THEN value # Bool(TRUE)
       ELSE AllBlank(value.s)

EmailRuleBroken(field, value) ==
    /\ field.type = "email"
    /\ ~AllBlank(value.s)
    /\ ~ReadsAsEmail(value.s)

NumberRuleBroken(field, value) ==
    /\ field.type = "number"
    /\ ~AllBlank(value.s)
    /\ ~ReadsAsNumber(value.s)

FormRuleBroken(field, value) ==
    \/ RequiredRuleBroken(field, value)
    \/ EmailRuleBroken(field, value)
    \/ NumberRuleBroken(field, value)

BreaksAFormRule(k) == FormRuleBroken(vfFields[k], vfData[k])

\* the rule EditResponse adds: a required relation field holds a value that
\* is not the id of one of the related responses offered
BreaksRelationRule(k) ==
    /\ vfPage = "EditResponse"
    /\ vfFields[k].type = "relation"
    /\ vfFields[k].required
    /\ vfData[k].s # ""
    /\ vfData[k].s \notin vfRelated[k]

C7_RequestOnlyWhenValid ==
    vfPc = "submitting" =>
        \A k \in 1..Len(vfFields) : ~FormRuleBroken(vfFields[k], vfSent[k])

\* the same for the two pages that call validateForm
C7_ValidatedPagesOnly ==
    vfPc = "submitting" /\ vfPage # "EditResponseGql" =>
        \A k \in 1..Len(vfFields) : ~FormRuleBroken(vfFields[k], vfSent[k])

-----------------------------------------------------------------------------
(* Properties of the loaders                                                *)

\* C8: a page that reached the loaded state for route (formId, responseId)
\* holds a response whose form_id, as a string, is formId, and updateResponse
\* is only ever issued for such a response.
C8_LoadedOnlyUnderOwnForm ==
    /\ ldPc = "loaded" => ToStr(ldResponse) = ldFormId
    /\ ldUpdated # Undef => ToStr(ldUpdated) = ldFormId

-----------------------------------------------------------------------------
(* Properties of the relation resolver                                      *)

\* a value that counts as non-empty
NonEmpty(v) == v \notin {Undef, Null, Str("")}

\* the ordered fallback: displayField, first text-like field, id label
OrderedFallback(displayField, schema, response) ==
    IF displayField # NoDisplayField
         /\ NonEmpty(DataAt(response.data, displayField))
      THEN ToStr(DataAt(response.data, displayField))
    ELSE IF \E i \in 1..Len(schema) :
              /\ schema[i] \in TextTypes
              /\ \A j \in 1..(i - 1) : schema[j] \notin TextTypes
              /\ NonEmpty(response.data[i])
      THEN ToStr(response.data[CHOOSE i \in 1..Len(schema) :
                                  /\ schema[i] \in TextTypes
                                  /\ \A j \in 1..(i - 1) :
                                        schema[j] \notin TextTypes])
    ELSE "Response " \o IdPrefix(response.id) \o "..."

\* C9: once a page has resolved its relation fields, the display value it
\* holds for every relation field and every response of the target form is
\* the one the ordered fallback gives.
C9_DisplayFollowsOrderedFallback ==
    rlPc # "loading" =>
        \A k \in 1..Len(rlFields) : \A i \in 1..Len(rlResponses) :
            rlMap[k][i].displayValue =
                OrderedFallback(rlFields[k], rlSchema, rlResponses[i])

\* the displays built from the stored reference alone
ReferenceFallbacks(value) ==
    {"ID: " \o IdPrefix(ToStr(value)) \o "...",
     "Response: " \o IdPrefix(ToStr(value)) \o "..."}

\* C10: a stored relation value that is the id of no response of the target
\* form is displayed as a fallback built from the value itself.
C10_UnmatchedValueShowsReference ==
    ( /\ rlPc = "shown"
      /\ Truthy(rlValue)
      /\ \A i \in 1..Len(rlResponses) : rlResponses[i].id # ToStr(rlValue) )
    => rlShown \in ReferenceFallbacks(rlValue)

\* C11: one resolution pass fetches the responses of a target form at most
\* once, however many relation fields point at that form.
C11_TargetFormFetchedOnce ==
    rlPc # "loading" => rlFetches <= 1

-----------------------------------------------------------------------------
(* Properties of the form builder and its save path                         *)

\* the fields read back from the schema handed to createForm / updateForm
StoredFields == JsonParse(bdSent.schema).fields

\* C12: the schema stored by a save, parsed back, has the builder's fields
\* in the same order with the same ids and the same relationConfig values.
C12_SchemaRoundTrip ==
    bdPc = "saving" =>
        /\ Len(StoredFields) = Len(bdFields)
        /\ \A k \in 1..Len(bdFields) :
              /\ StoredFields[k].id = bdFields[k].id
              /\ StoredFields[k].relationConfig = bdFields[k].relationConfig

\* C14: no two fields of the builder's form have the same id, and so none
\* of the stored schema have.
C14_FieldIdsUnique ==
    /\ \A i, j \in 1..Len(bdFields) :
          i # j => bdFields[i].id # bdFields[j].id
    /\ bdPc = "saving" =>
          \A i, j \in 1..Len(StoredFields) :
              i # j => StoredFields[i].id # StoredFields[j].id

\* C15: in a saved schema the valueField of every configured relation field
\* names the related response's own identifier.
C15_ValueFieldIsResponseId ==
    bdPc = "saving" =>
        \A k \in 1..Len(StoredFields) :
            StoredFields[k].type = "relation"
              /\ StoredFields[k].relationConfig.formId # ""
            => StoredFields[k].relationConfig.valueField = "id"

\* a title of blanks only
BlankTitle(title) == \A i \in 1..Len(title) : SubSeq(title, i, i) = " "

\* C16: a request is only issued for a form with a non-blank title, at least
\* one field and an option on every select and radio field; a refused save
\* attempt issues no request and leaves the form as it was.
C16_SavedFormIsComplete ==
    /\ [](bdPc = "saving" =>
            /\ ~BlankTitle(bdSent.title)
            /\ Len(StoredFields) >= 1
            /\ \A k \in 1..Len(StoredFields) :
                  StoredFields[k].type \in {"select", "radio"}
                    => StoredFields[k].options >= 1)
    /\ [][bdPc # "rejected" /\ bdPc' = "rejected" =>
            /\ bdSent' = NoSent
            /\ UNCHANGED <<bdTitle, bdFields, bdCache>>]_vars

C16_Witness ==
    /\ bdPc = "saving"
    /\ \E k \in 1..Len(StoredFields) :
          StoredFields[k].type = "radio" /\ StoredFields[k].options = 1

\* C17: a relation field whose target form no longer exists is stored with
\* its formId unchanged and the title "Form not found"; every other field is
\* stored as it is in the builder.
C17_MissingTargetIsMarked ==
    bdPc = "saving" =>
        \A k \in 1..Len(StoredFields) :
            IF /\ bdFields[k].type = "relation"
               /\ bdFields[k].relationConfig.formId # ""
              THEN bdFields[k].relationConfig.formId \notin bdBackend =>
                     /\ StoredFields[k].relationConfig.formId =
                           bdFields[k].relationConfig.formId
                     /\ StoredFields[k].relationConfig.formTitle =
                           "Form not found"
              ELSE StoredFields[k] = bdFields[k]

-----------------------------------------------------------------------------
(* Properties of the schema readers                                         *)

\* C13: whatever the stored schema is, as a text or as a native value, the
\* reader ends in the loaded state with a list of fields and without an
\* error shown to the user; the list is empty when the text does not parse or
\* the value has no list under "fields".
C13_ReaderEndsWithFieldList ==
    rdPc = "done" =>
        /\ rdResult.state = "loaded"
        /\ rdResult.fields.t = "list"
        /\ ~rdResult.toast
        /\ (rdStored.doc.kind # "object" \/ rdStored.doc.fields.t # "list")
              => rdResult.fields.list = <<>>

-----------------------------------------------------------------------------
(* Properties of a page load with failing relation fetches                  *)

\* C18: once the form and the response arrived, whichever relation fetches
\* fail, the load ends: loading becomes false, no not-found state is
\* entered, the response's own values stay held and no relation loading flag
\* stays set.
C18_RelationFailureDoesNotBlock ==
    /\ <>(rfPc = "done")
    /\ [](rfView.data =>
            /\ ~rfView.notFound
            /\ rfPc = "done" => ~rfLoading /\ rfFlags = {})
    /\ [][rfView.data => rfView'.data]_vars

C18_Witness ==
    /\ rfPc = "done"
    /\ Len(rfOutcomes) = 2
    /\ rfOutcomes[1] = "responsesFail"
    /\ rfResolved = {2}

-----------------------------------------------------------------------------
(* Properties of the CRUD facade                                            *)

\* C19: every call issues exactly one backend request, and a call whose
\* request failed raises: it neither returns a null / not-found result nor
\* is followed by a second request of the calling page.
C19_FailureRaisesAfterOneRequest ==
    fcResult.op # "none" =>
        /\ fcResult.requests = 1
        /\ fcResult.failed => fcResult.outcome = "raised"

\* C20: deleteForm(id) for an id the backend does not store, the request
\* itself going through, returns without raising and leaves the stored forms
\* as they were; repeated right after a deleteForm(id) that returned through
\* the same path, it leaves the hook's list as it was too.
C20_DeleteFormIsIdempotent ==
    [][\A path \in DeletePaths, id \in StoredFormIds :
          DeleteForm(path, id, FALSE) /\ id \notin fcForms =>
              /\ fcResult'.outcome = "returned"
              /\ fcForms' = fcForms
              /\ (fcResult.op = "deleteForm" /\ fcResult.path = path
                  /\ fcResult.id = id /\ fcResult.outcome = "returned")
                 => fcList' = fcList]_vars

C20_Witness ==
    /\ fcResult.op = "deleteForm"
    /\ fcResult.path = "useForms"
    /\ fcResult.missing
    /\ fcResult.outcome = "returned"
    /\ fcList # {}

-----------------------------------------------------------------------------
(* Properties of the forms cache of the GraphQL service                     *)

\* C21: when a createForm, updateForm or deleteForm whose mutation the
\* backend served returns, formsCache is empty.
C21_CacheEmptyAfterMutation ==
    [][\A c \in Callers :
          /\ gsCalls[c].pc = "mutationDone"
          /\ ~gsCalls[c].failed
          /\ CallResumes(c)
          => gsCache' = {}]_vars

\* C25: once no call is in flight, formsCache is empty or lists exactly the
\* forms the backend stores.
C25_CacheNeverResurrects ==
    (\A c \in Callers : gsCalls[c].pc = "idle") =>
        gsCache = {} \/ gsCache = gsBackend

-----------------------------------------------------------------------------
(* Properties of the filters that fetchResponses derives                    *)

\* the operator the table of defaults gives a field type and a filter value
DefaultOperator(fieldType, value) ==
    CASE fieldType \in {"text", "email", "textarea"} -> "contains"
      [] fieldType = "checkbox" /\ value = "true" -> "isTrue"
      [] fieldType = "checkbox" /\ value = "false" -> "isFalse"
      [] OTHER -> "equals"

\* field k has a set filter value that its input can produce
FilterIsSet(k) ==
    /\ riFilters[k] # ""
    /\ riFields[k] = "checkbox" => riFilters[k] \in {"true", "false"}

\* activeFilters holds an entry for field k with the default operator
HasDefaultEntry(k) ==
    \E i \in 1..Len(riActive) :
        /\ riActive[i].fieldName = IndexFieldIds[k]
        /\ riActive[i].filter.operator =
              DefaultOperator(riFields[k], riFilters[k])

\* C22 as stated: every field with a set filter value has an entry with the
\* default operator of its type, and a field whose filter value is unset has
\* no entry.
C22_ImplicitOperators ==
    \A k \in 1..Len(riFields) :
        /\ FilterIsSet(k) => HasDefaultEntry(k)
        /\ riFilters[k] = "" => ~HasEntry(riActive, IndexFieldIds[k])

\* C22, amended: every field with a set filter value has an entry with the
\* default operator of its type; a field whose filter value is unset has an
\* entry exactly when it is a text, email or textarea field and the search
\* term is not blank.
C22_ImplicitOperatorsBesideSearch ==
    \A k \in 1..Len(riFields) :
        /\ FilterIsSet(k) => HasDefaultEntry(k)
        /\ riFilters[k] = "" =>
              (HasEntry(riActive, IndexFieldIds[k])
                 <=> /\ riFields[k] \in {"text", "email", "textarea"}
                     /\ Trim(riSearchTerm) # "")

C22_Witness ==
    /\ riFields[1] = "number" /\ riFilters[1] = "a"
    /\ riFields[2] = "checkbox" /\ riFilters[2] = "false"
    /\ Len(riActive) = 2

-----------------------------------------------------------------------------
(* Properties of the search box                                             *)

\* the rows of the browsed form: the values of its fields
SampleRows == [1..Len(IndexFieldIds) -> {"A", "b"}]

LowerCase(c) == IF c = "A" THEN "a" ELSE IF c = "B" THEN "b" ELSE c

\* text ILIKE pattern, "%" standing for any run of characters
RECURSIVE Ilike(_, _)
Ilike(text, pattern) ==
    IF Len(pattern) = 0 THEN Len(text) = 0
    ELSE IF CharAt(pattern, 1) = "%"
      THEN \E i \in 0..Len(text) :
              Ilike(SubSeq(text, i + 1, Len(text)),
                    SubSeq(pattern, 2, Len(pattern)))
    ELSE /\ Len(text) > 0
         /\ LowerCase(CharAt(text, 1)) = LowerCase(CharAt(pattern, 1))
         /\ Ilike(SubSeq(text, 2, Len(text)), SubSeq(pattern, 2, Len(pattern)))

\* the row is in the result of the query: every .filter() call narrows the
\* query further, so the row has to satisfy each constraint
QueryReturns(query, row) ==
    \A i \in 1..Len(query.constraints) :
        LET c == query.constraints[i]
            k == CHOOSE k \in 1..Len(IndexFieldIds) :
                    IndexFieldIds[k] = c.path.field
        IN  CASE c.op = "ilike" -> Ilike(row[k], c.arg.s)
              [] c.op = "eq"    -> row[k] = ToStr(c.arg)

\* C23: with a search term and no field filter, every row in which at least
\* one text, email or textarea field contains the term (in any case) is in
\* the result of the query that fetchResponses issues.
C23_SearchFindsAnyTextField ==
    (/\ Trim(riSearchTerm) # ""
     /\ \A k \in 1..Len(riFields) : riFilters[k] = "") =>
        \A row \in SampleRows :
            (\E k \in 1..Len(riFields) :
                /\ riFields[k] \in {"text", "email", "textarea"}
                /\ Ilike(row[k], "%" \o Trim(riSearchTerm) \o "%"))
            => QueryReturns(riQuery, row)

-----------------------------------------------------------------------------
(* Properties of the list of ResponsesIndex                                 *)

\* C24: when the last fetchResponses call in flight settles, the displayed
\* responses and totalCount are those returned to the most recently issued
\* call, and loading is false.
C24_LatestRequestIsShown ==
    [][(rpFetches # {} /\ rpFetches' = {}) =>
          /\ rpLatest'.state = "returned"
          /\ rpView'.responses = rpLatest'.responses
          /\ rpView'.totalCount = rpLatest'.total
          /\ ~rpView'.loading]_vars

\* C26: totalCount is never negative, and while it is positive the current
\* page lies between 1 and ceil(totalCount / pageSize).
C26_PaginationConsistent ==
    /\ rpView.totalCount >= 0
    /\ rpView.totalCount > 0 =>
          /\ 1 <= rpParams.page
          /\ rpParams.page <= MathCeilDiv(rpView.totalCount, rpParams.pageSize)

\* C30: a deleteResponse that succeeded removes the confirmed response, and
\* nothing else, from the displayed responses and lowers totalCount by one;
\* one that failed leaves both as they were; either way the dialog ends
\* closed with no response picked; and handleDeleteConfirm sends a request
\* only for a picked response.
C30_DeleteHasItsEffectOnly ==
    [][/\ \A failed \in BOOLEAN :
             DeleteSettles(failed) =>
                /\ rpView'.responses =
                      IF failed THEN rpView.responses
                      ELSE rpView.responses \ {rpDelete.deleting}
                /\ rpView'.totalCount =
                      IF failed THEN rpView.totalCount
                      ELSE rpView.totalCount - 1
                /\ rpView'.loading = rpView.loading
                /\ ~rpDelete'.dialogOpen
                /\ rpDelete'.toDelete = NoResponse
       /\ rpDelete'.deleting \notin {NoResponse, rpDelete.deleting} =>
             rpDelete'.deleting = rpDelete.toDelete]_vars

C30_Witness ==
    /\ rpDelete.deletes > 0
    /\ rpDelete.deleting = NoResponse
    /\ rpDelete.toDelete = NoResponse
    /\ ~rpDelete.dialogOpen
    /\ Cardinality(rpStored) < MaxStored
    /\ rpView.totalCount = Cardinality(rpStored)
    /\ rpView.responses # {}
    /\ rpView.responses \subseteq rpStored

-----------------------------------------------------------------------------
(* Properties of relation fields that share a target form                   *)

\* C27: in ShowResponse and ResponsesIndex the display value of the stored
\* response id of every relation field is the one computed with that
\* field's own displayField.
C27_OwnDisplayFieldIsUsed ==
    (/\ rlPage \in {"ShowResponse", "ResponsesIndex"}
     /\ rlPc \in {"resolved", "shown"}
     /\ Truthy(rlValue)) =>
        \A k \in 1..Len(rlFields) :
            RelationDisplayValue(rlPage, rlMap[k], rlValue) =
                RelationDisplayValue(
                    rlPage,
                    OptionsOf(rlPage, rlFields[k], rlSchema, rlResponses),
                    rlValue)

-----------------------------------------------------------------------------
(* Properties of a save whose fetch of the forms fails                      *)

\* C28: a relation field whose target form the backend stores is never
\* stored with the title "Form not found", whether or not the fetch of the
\* forms succeeded.
C28_ExistingTargetIsNotMarked ==
    bdPc = "saving" =>
        \A k \in 1..Len(StoredFields) :
            (/\ bdFields[k].type = "relation"
             /\ bdFields[k].relationConfig.formId \in bdBackend)
            => StoredFields[k].relationConfig.formTitle # "Form not found"

-----------------------------------------------------------------------------
(* Properties of validateForm on stored values                              *)

\* C29: EditResponse.validateForm never raises: a submit attempt ends in an
\* update request or in reported field errors.
C29_ValidateFormNeverRaises ==
    vfPage = "EditResponse" => vfPc # "threw"

====
